---- MODULE Spec2Model ----
(***************************************************************************)
(* State-machine model of the OAuth broker of google-tag-manager-mcp-server *)
(*                                                                         *)
(*   src/lib/storage.ts     MemoryStorage and the oauth:* storage helpers  *)
(*   src/unnamed/part_003   the OAuth provider (exchangeCode, ...)         *)
(*   src/unnamed/part_001   the TypeScript request handler                 *)
(*   src/unnamed/part_000   the self-contained JavaScript request handler  *)
(*                                                                         *)
(* Strings are sequences of segments: "oauth:token:abc" is                 *)
(* <<"oauth","token","abc">>, a template string is a concatenation, and    *)
(* startsWith is the prefix relation on sequences.  The empty string is    *)
(* <<>>.  JSON text is the record [json |-> value]; null is Null.          *)
(* Times are milliseconds, as returned by Date.now().                      *)
(***************************************************************************)
EXTENDS Integers, Sequences, FiniteSets, TLC

\* ------------------------------------------------------------- bounds
\* number of state values part_000's authorize route stores in one behaviour
MaxStates == 2
\* number of authorization codes the callback route issues in one behaviour
MaxCodes == 1
\* number of access tokens the token route may return in one behaviour
MaxTokens == 2
\* number of clients the register route creates in one behaviour
MaxClients == 1
\* number of authorization codes issued in one behaviour of a user who
\* authorizes the same client again
MaxReauthCodes == 2
\* number of clients registered in one behaviour of the client registry
MaxRegistrations == 2
\* largest number of milliseconds by which the clock advances between two
\* Date.now() reads of one request
MaxSkew == 1
\* number of seconds over which the calls on MemoryStorage itself are followed
MaxStorageSeconds == 2

\* ---------------------------------------------------- program constants
CodeTTL == 300
TokenExpiresIn == 3600
JsAuthTTL == 600
JsTokenTTL == 3600
JsExpiresIn == 3600
JsCodeTTL == 300
MsPerSecond == 1000
StateTTL == 600

\* ------------------------------------------------------------- values
Null == [null |-> TRUE]
Undefined == <<"<undefined>">>
EmptyString == <<>>

\* JavaScript truthiness of a string-or-undefined value
Truthy(x) == x # Undefined /\ x # EmptyString

\* values returned by crypto.randomBytes(..).toString('base64url'): each call
\* yields a value never produced before; the values are named after their use
IdKinds == {"state", "code", "grant", "token", "client", "secret"}

RandomValues ==
  [state  |-> <<"s1", "s2", "s3", "s4", "s5", "s6">>,
   code   |-> <<"a1", "a2", "a3", "a4", "a5", "a6">>,
   grant  |-> <<"g1", "g2", "g3", "g4", "g5", "g6">>,
   token  |-> <<"t1", "t2", "t3", "t4", "t5", "t6">>,
   client |-> <<"k1", "k2", "k3", "k4", "k5", "k6">>,
   secret |-> <<"x1", "x2", "x3", "x4", "x5", "x6">>]

generateCode(kind, n) == <<RandomValues[kind][n]>>

JSON_stringify(v) == [json |-> v]

JSON_parse(s) == s.json

\* obj.f: undefined when the object has no member f
Member(obj, f) == IF f \in DOMAIN obj THEN obj[f] ELSE Undefined

\* variant of JSON_members that also leaves out the members that are the
\* empty string; C28 must not hold of it
JSON_members_dropsEmpty(obj) ==
  [f \in {g \in DOMAIN obj : obj[g] # Undefined /\ obj[g] # EmptyString} |-> obj[f]]

\* the members of an object of strings and lists that JSON.stringify writes:
\* a member whose value is undefined is left out
JSON_members(obj) == [f \in {g \in DOMAIN obj : obj[g] # Undefined} |-> obj[f]]

startsWith(s, p) == Len(p) <= Len(s) /\ SubSeq(s, 1, Len(p)) = p

Floor(a, b) == a \div b

\* the token requests that may be in flight at the same time
Calls == {1, 2}

\* ------------------------------------------------- inputs of the requests
ClientIds == {<<"c1">>, <<"c2">>}
RedirectUris == {<<"https://app.example/cb">>}
UserIds == {<<"u1">>}
\* the first two of the nine GOOGLE_SCOPES
GOOGLE_SCOPES == <<"email", "profile">>

VARIABLES
  deployed,      \* which handler module serves /api: "ts" (part_001) or "js" (part_000)
  now,           \* the clock, Date.now()
  memoryStore,   \* storage.ts: the Map of MemoryStorage
  jsMemoryStore, \* part_000: its own Map
  nextId,        \* number of values generateCode has handed out, by use
  issued,        \* history: code |-> the clientId and time it was issued for
  redeemed,      \* history: code |-> number of token requests it answered 200 (capped at 2)
  minted,        \* history: access token |-> props and time of minting
  handed,        \* history: state value handed to the upstream provider |-> time of the authorize request
  registered,    \* history: the client ids the register route has handed out
  passed,        \* history: handed state value |-> number of callbacks that went past the state check (capped at 2)
  pc,            \* overlapping exchangeCode calls: position of each call
  call,          \* overlapping exchangeCode calls: arguments and locals of each call
  written        \* history of the calls made on MemoryStorage itself: key |-> the value,
                 \* time and ttl of its most recent set, if no delete of the key followed

vars == <<deployed, now, memoryStore, jsMemoryStore, nextId, issued, redeemed,
          minted, handed, passed, registered, pc, call, written>>

\* ------------------------------------------------- functions as JS Maps
EmptyMap == [k \in {} |-> Null]

MapSet(m, k, v) == [x \in (DOMAIN m) \cup {k} |-> IF x = k THEN v ELSE m[x]]

MapDelete(m, k) == [x \in (DOMAIN m) \ {k} |-> m[x]]

Bump(m, k) == MapSet(m, k, IF k \in DOMAIN m THEN (IF m[k] >= 2 THEN 2 ELSE m[k] + 1) ELSE 1)

\* ---------------------------------------------- storage.ts MemoryStorage
\* An item is [value, expiry]; expiry 0 is the absent (falsy) expiry.

\* variant of ItemExpired for which no item expires; C25 must not hold of it
ItemExpired_never(item, t) == FALSE

ItemExpired(item, t) == item.expiry # 0 /\ t > item.expiry

\* variant of MemoryStorage.get that returns the value of an expired item;
\* C27 must not hold of it
storage_get_stale(store, key, t) ==
  IF key \notin DOMAIN store THEN Null ELSE store[key].value

\* MemoryStorage.get: the value returned
storage_get(store, key, t) ==
  IF key \notin DOMAIN store THEN Null
  ELSE IF ItemExpired(store[key], t) THEN Null
  ELSE store[key].value

\* MemoryStorage.get: the Map afterwards (lazy eviction)
storage_get_store(store, key, t) ==
  IF key \in DOMAIN store /\ ItemExpired(store[key], t)
  THEN MapDelete(store, key)
  ELSE store

\* MemoryStorage.set; ttl 0 stands for a falsy ttl (0 or undefined)
storage_set(store, key, value, ttl, t) ==
  MapSet(store, key,
         [value |-> value,
          expiry |-> IF ttl # 0 THEN t + (ttl * MsPerSecond) ELSE 0])

storage_delete(store, key) == MapDelete(store, key)

storage_list(store, prefix) == {k \in DOMAIN store : startsWith(k, prefix)}

\* ------------------------------------------------ storage.ts key layout
ClientKey(clientId) == <<"oauth", "client">> \o clientId

TokenKey(accessToken) == <<"oauth", "token">> \o accessToken

UserTokenKey(userId, clientId) == (<<"oauth", "user">> \o userId) \o clientId

GrantKey(grantId) == <<"oauth", "grant">> \o grantId

UserGrantPrefix(userId) == (<<"oauth", "user">> \o userId) \o <<"grant">>

UserGrantKey(userId, grantId) == UserGrantPrefix(userId) \o grantId

StateKey(state) == <<"oauth", "state">> \o state

\* ------------------------------------------- storage.ts OAuth functions
storeOAuthClient(store, client, t) ==
  storage_set(store, ClientKey(client.clientId), JSON_stringify(client), 0, t)

getOAuthClient(store, clientId, t) ==
  LET data == storage_get(store, ClientKey(clientId), t)
  IN  IF data # Null THEN JSON_parse(data) ELSE Null

\* variant of deleteOAuthClient that deletes the token records as well; C22
\* must not hold of it
deleteOAuthClient_cascades(store, clientId) ==
  [k \in {x \in DOMAIN store : /\ x # <<"oauth", "client">> \o clientId
                                 /\ ~startsWith(x, <<"oauth", "token">>)} |-> store[k]]

deleteOAuthClient(store, clientId) == storage_delete(store, ClientKey(clientId))

\* variant of the ttl of line 98 that is never below one second; C38 must
\* not hold of it
TokenTtl_atLeastOne(token, t) ==
  LET ttl == Floor(token.expiresAt - t, MsPerSecond)
  IN  IF ttl > 0 THEN ttl ELSE 1

\* line 98: the ttl handed to the store, 0 standing for undefined
TokenTtl(token, t) ==
  LET ttl == Floor(token.expiresAt - t, MsPerSecond)
  IN  IF ttl > 0 THEN ttl ELSE 0

\* line 99: the token-keyed record
storeOAuthToken_byToken(store, token, ttl, t) ==
  storage_set(store, TokenKey(token.accessToken), JSON_stringify(token), ttl, t)

\* line 100: the (subject, client)-keyed record
storeOAuthToken_byUser(store, token, ttl, t) ==
  storage_set(store, UserTokenKey(token.userId, token.clientId),
              JSON_stringify(token), ttl, t)

storeOAuthToken(store, token, t) ==
  storeOAuthToken_byUser(
    storeOAuthToken_byToken(store, token, TokenTtl(token, t), t),
    token, TokenTtl(token, t), t)

getOAuthToken(store, accessToken, t) ==
  LET data == storage_get(store, TokenKey(accessToken), t)
  IN  [ret   |-> IF data # Null THEN JSON_parse(data) ELSE Null,
       store |-> storage_get_store(store, TokenKey(accessToken), t)]

storeOAuthGrant(store, grant, t) ==
  storage_set(
    storage_set(store, GrantKey(grant.id), JSON_stringify(grant), 0, t),
    UserGrantKey(grant.userId, grant.id), JSON_stringify(grant), 0, t)

getOAuthGrant(store, grantId, t) ==
  LET data == storage_get(store, GrantKey(grantId), t)
  IN  [ret   |-> IF data # Null THEN JSON_parse(data) ELSE Null,
       store |-> storage_get_store(store, GrantKey(grantId), t)]

storeOAuthState(store, state, data, ttl, t) ==
  storage_set(store, StateKey(state), JSON_stringify(data), ttl, t)

\* variant of getOAuthState that leaves the entry in the Map; C2 must not
\* hold of it
getOAuthState_keeps(store, state, t) ==
  LET data == storage_get(store, StateKey(state), t)
  IN  [ret   |-> IF data # Null THEN JSON_parse(data) ELSE Null,
       store |-> storage_get_store(store, StateKey(state), t)]

\* getOAuthState run without interruption: get, then delete when found
getOAuthState(store, state, t) ==
  LET data    == storage_get(store, StateKey(state), t)
      afterGet == storage_get_store(store, StateKey(state), t)
  IN  IF data # Null
      THEN [ret |-> JSON_parse(data), store |-> storage_delete(afterGet, StateKey(state))]
      ELSE [ret |-> Null, store |-> afterGet]

\* ------------------------------------------------- part_003: the provider
Throw == [throw |-> "TypeError"]

\* new URL(x) throws unless x is an absolute URL
IsAbsoluteUrl(x) == Len(x) = 1 /\ x # Undefined

createAuthorizationCode(store, authRequest, userId, props, code, t) ==
  storeOAuthState(store, code,
                  [authRequest |-> authRequest, userId |-> userId,
                   props |-> props, createdAt |-> t],
                  CodeTTL, t)

\* the store after completeAuthorization: the code, then the grant
completeAuthorization_store(store, params, code, grantId, t) ==
  storeOAuthGrant(
    createAuthorizationCode(store, params.request, params.userId, params.props, code, t),
    [id |-> grantId, userId |-> params.userId,
     clientId |-> params.request.clientId, scope |-> params.scope,
     createdAt |-> t],
    t)

\* the redirect target built by completeAuthorization, or Throw
completeAuthorization_redirectTo(params, code) ==
  IF ~IsAbsoluteUrl(params.request.redirectUri) THEN Throw
  ELSE [url   |-> params.request.redirectUri,
        code  |-> code,
        state |-> IF Truthy(Member(params.request, "state")) THEN params.request.state
                  ELSE Undefined]

\* variant of the test of line 180 that does not compare the clientId; C4
\* must not hold of it
exchangeCode_accepts_anyClient(stateData, clientId) == stateData # Null

\* line 180: the test that lets exchangeCode go on
exchangeCode_accepts(stateData, clientId) ==
  stateData # Null /\ stateData.authRequest.clientId = clientId

\* lines 187-194: the token record handed to storeOAuthToken
exchangeCode_token(stateData, clientId, accessToken, t) ==
  [accessToken |-> accessToken,
   userId      |-> stateData.props.userId,
   clientId    |-> clientId,
   scope       |-> Member(stateData.authRequest, "scope"),
   expiresAt   |-> t + (TokenExpiresIn * MsPerSecond),
   props       |-> stateData.props]

\* lines 196-202: the value returned; scope.join throws on a missing scope
exchangeCode_result(stateData, accessToken) ==
  IF Member(stateData.authRequest, "scope") = Undefined THEN Throw
  ELSE [accessToken |-> accessToken,
        tokenType   |-> "Bearer",
        expiresIn   |-> TokenExpiresIn,
        scope       |-> stateData.authRequest.scope,
        props       |-> stateData.props]

\* exchangeCode run without interruption; t is the clock at lines 178-192 and
\* t2 >= t the clock inside storeOAuthToken
exchangeCode(store, code, clientId, accessToken, t, t2) ==
  LET got == getOAuthState(store, code, t)
  IN  IF ~exchangeCode_accepts(got.ret, clientId)
      THEN [ret |-> Null, store |-> got.store]
      ELSE [ret   |-> exchangeCode_result(got.ret, accessToken),
            store |-> storeOAuthToken(got.store,
                        exchangeCode_token(got.ret, clientId, accessToken, t), t2)]

validateToken(store, accessToken, t) ==
  LET got == getOAuthToken(store, accessToken, t)
  IN  [ret   |-> IF got.ret = Null \/ got.ret.expiresAt < t THEN Null
                 ELSE got.ret.props,
       store |-> got.store]

\* --------------------------------------- requests, responses and outcomes
\* a || b on strings
OrElse(a, b) == IF Truthy(a) THEN a ELSE b

Base64(v) == [b64 |-> v]

Base64Decode(s) == s.b64

\* JSON.parse(text) succeeds only on JSON text
IsJSON(text) == "json" \in DOMAIN text

\* res.status(status).json(body)
Response(status, body) == [status |-> status, body |-> body, location |-> Null]

\* res.redirect(302, location)
Redirect(location) == [status |-> 302, body |-> Null, location |-> location]

\* a rejection that leaves the route function: part_001's handler returns the
\* route's promise without awaiting it, so its catch block does not run and no
\* response is sent
Unhandled == [status |-> 0, body |-> [unhandled |-> "rejection"], location |-> Null]

\* what a route did with a request: the response, the Map afterwards, whether
\* the upstream provider was called and the props handed to the dispatch
Outcome(res, store) ==
  [res |-> res, store |-> store, upstream |-> FALSE, dispatched |-> Null]

UpstreamToken(userId) == <<"ya29">> \o userId

UserInfo(userId) == [id |-> userId, name |-> <<"Name">>, email |-> <<"user@example.com">>]

\* part_003 parseAuthRequest; q holds Undefined for a parameter that is absent
parseAuthRequest(q) ==
  [clientId            |-> OrElse(q.client_id, EmptyString),
   redirectUri         |-> OrElse(q.redirect_uri, EmptyString),
   scope               |-> IF q.scope = Undefined THEN <<>> ELSE q.scope,
   state               |-> OrElse(q.state, Undefined),
   responseType        |-> OrElse(Member(q, "response_type"), <<"code">>),
   codeChallenge       |-> OrElse(Member(q, "code_challenge"), Undefined),
   codeChallengeMethod |-> OrElse(Member(q, "code_challenge_method"), Undefined)]

Query(client_id, redirect_uri, state) ==
  [client_id |-> client_id, redirect_uri |-> redirect_uri,
   scope |-> <<"email">>, state |-> state]

\* the authorize requests sent: complete, without redirect_uri, without
\* client_id, and with a method that is neither GET nor POST
AuthorizeRequests ==
  { [method |-> "GET", query |-> Query(<<"c1">>, <<"https://app.example/cb">>, <<"xyz">>)],
    [method |-> "GET", query |-> Query(<<"c1">>, Undefined, <<"xyz">>)],
    [method |-> "GET", query |-> Query(Undefined, <<"https://app.example/cb">>, <<"xyz">>)],
    [method |-> "PUT", query |-> Query(<<"c1">>, <<"https://app.example/cb">>, <<"xyz">>)] }

\* authorization requests that no authorize request produced
ForgedAuthRequests ==
  { [clientId |-> <<"c1">>, redirectUri |-> <<"https://evil.example/cb">>,
     scope |-> sc, state |-> Undefined, responseType |-> <<"code">>,
     codeChallenge |-> Undefined, codeChallengeMethod |-> Undefined]
    : sc \in {<<"email">>, Undefined} }

\* state values made by the caller: base64 of JSON, and base64 of other text
ForgedStates ==
  {Base64(JSON_stringify(JSON_members(r))) : r \in ForgedAuthRequests}
    \cup {Base64([garbage |-> TRUE])}

\* the callback requests sent to part_001: every state value handed out and
\* every forged one with a code, one request without code and one without state
CallbackRequests ==
  IF deployed # "ts" THEN {}
  ELSE { [code |-> <<"gc1">>, state |-> st] : st \in (DOMAIN handed) \cup ForgedStates }
         \cup { [code |-> Undefined, state |-> Base64([garbage |-> TRUE])],
                [code |-> <<"gc1">>, state |-> Null] }

\* what the upstream provider does during one callback
UpstreamOutcomes == {"ok", "reject", "token_throws", "userinfo_fails", "userinfo_throws"}

\* variant of fetchUpstreamAuthToken that takes a non-success answer for a
\* success; C15 must not hold of it
fetchUpstreamAuthToken_ignoresStatus(up, userId) ==
  IF up = "token_throws" THEN Throw
  ELSE [accessToken |-> UpstreamToken(userId), errorResponse |-> Null]

\* part_003 fetchUpstreamAuthToken: the pair returned, or Throw when fetch
\* rejects, which nothing in the function catches
fetchUpstreamAuthToken(up, userId) ==
  IF up = "token_throws" THEN Throw
  ELSE IF up = "reject"
  THEN [accessToken |-> Null,
        errorResponse |-> Response(400, [text |-> "Failed to exchange code"])]
  ELSE [accessToken |-> UpstreamToken(userId), errorResponse |-> Null]

\* ------------------------------------------- part_001: the route functions
\* the state parameter handleAuthorize sends to the upstream provider
handleAuthorize_state(req) ==
  Base64(JSON_stringify(JSON_members(parseAuthRequest(req.query))))

\* variant of handleAuthorize that looks the client up and refuses a client_id
\* that is not registered; C34 must not hold of it
handleAuthorize_checksClient(store, req) ==
  LET method      == req.method
      authRequest == parseAuthRequest(req.query)
  IN  IF method # "GET" /\ method # "POST"
      THEN Outcome(Response(405, [error |-> "Method not allowed"]), store)
      ELSE IF ~Truthy(authRequest.clientId)
      THEN Outcome(Response(400, [error |-> "Invalid request: missing client_id"]), store)
      ELSE IF getOAuthClient(store, authRequest.clientId, now) = Null
      THEN Outcome(Response(400, [error |-> "Invalid request: unknown client_id"]), store)
      ELSE Outcome(Redirect([url |-> <<"https://accounts.google.com/o/oauth2/v2/auth">>,
                             state |-> handleAuthorize_state(req)]),
                   store)

\* part_001 handleAuthorize on a given Map
handleAuthorize_on(store, req) ==
  LET method      == req.method
      authRequest == parseAuthRequest(req.query)
  IN  IF method # "GET" /\ method # "POST"
      THEN Outcome(Response(405, [error |-> "Method not allowed"]), store)
      ELSE IF ~Truthy(authRequest.clientId)
      THEN Outcome(Response(400, [error |-> "Invalid request: missing client_id"]), store)
      ELSE Outcome(Redirect([url |-> <<"https://accounts.google.com/o/oauth2/v2/auth">>,
                             state |-> handleAuthorize_state(req)]),
                   store)

handleAuthorize_outcome(req) == handleAuthorize_on(memoryStore, req)

handleAuthorize(req) ==
  LET out == handleAuthorize_outcome(req)
  IN  /\ deployed = "ts"
      /\ handed' = IF out.res.status = 302
                   THEN MapSet(handed, handleAuthorize_state(req), now)
                   ELSE handed
      /\ UNCHANGED <<written, deployed, now, memoryStore, jsMemoryStore, nextId, issued,
                     redeemed, minted, passed, registered, pc, call>>

\* lines 236-250: the state check of handleCallback
handleCallback_passes(req) ==
  /\ Truthy(req.code)
  /\ req.state # Null
  /\ IsJSON(Base64Decode(req.state))

\* lines 266-285: the parameters handed to completeAuthorization
handleCallback_params(req, userId) ==
  LET authRequest == JSON_parse(Base64Decode(req.state))
      user        == UserInfo(userId)
  IN  [request |-> authRequest,
       userId  |-> user.id,
       scope   |-> IF Member(authRequest, "scope") # Undefined THEN authRequest.scope
                   ELSE GOOGLE_SCOPES,
       props   |-> [userId |-> user.id, name |-> user.name, email |-> user.email,
                    accessToken |-> UpstreamToken(userId),
                    clientId |-> authRequest.clientId]]

handleCallback_on(store, req, up, userId) ==
  LET params     == handleCallback_params(req, userId)
      newCode    == generateCode("code", nextId.code + 1)
      grantId    == generateCode("grant", nextId.grant + 1)
      redirectTo == completeAuthorization_redirectTo(params, newCode)
      fetched    == fetchUpstreamAuthToken(up, userId)
      called(res) == [Outcome(res, store) EXCEPT !.upstream = TRUE]
  IN  IF ~Truthy(req.code) \/ req.state = Null
      THEN Outcome(Response(400, [error |-> "Missing code or state"]), store)
      ELSE IF ~IsJSON(Base64Decode(req.state))
      THEN Outcome(Response(400, [error |-> "Invalid state"]), store)
      ELSE IF fetched = Throw THEN called(Unhandled)
      ELSE IF fetched.errorResponse # Null \/ fetched.accessToken = Null
      THEN called(Response(400, [error |-> "Failed to exchange code"]))
      ELSE IF up = "userinfo_throws" THEN called(Unhandled)
      ELSE IF up = "userinfo_fails" THEN called(Response(500, [error |-> "Failed to fetch user info"]))
      ELSE [res        |-> IF redirectTo = Throw THEN Unhandled ELSE Redirect(redirectTo),
            store      |-> completeAuthorization_store(store, params, newCode, grantId, now),
            upstream   |-> TRUE,
            dispatched |-> Null]

handleCallback_outcome(req, up, userId) == handleCallback_on(memoryStore, req, up, userId)

\* a callback request, in a behaviour that issues at most limit codes
handleCallback_upTo(limit, req, up, userId) ==
  LET out     == handleCallback_outcome(req, up, userId)
      stores  == handleCallback_passes(req) /\ up = "ok"
      newCode == generateCode("code", nextId.code + 1)
  IN  /\ deployed = "ts"
      /\ stores => Cardinality(DOMAIN issued) < limit
      /\ memoryStore' = out.store
      /\ nextId' = IF stores
                   THEN [nextId EXCEPT !.code = @ + 1, !.grant = @ + 1]
                   ELSE nextId
      /\ issued' = IF stores
                   THEN MapSet(issued, newCode,
                               [clientId |-> JSON_parse(Base64Decode(req.state)).clientId,
                                at |-> now])
                   ELSE issued
      /\ passed' = IF out.upstream /\ req.state \in DOMAIN handed
                   THEN Bump(passed, req.state)
                   ELSE passed
      /\ UNCHANGED <<written, deployed, now, jsMemoryStore, redeemed, minted, handed, registered,
                     pc, call>>

handleCallback(req, up, userId) == handleCallback_upTo(MaxCodes, req, up, userId)

\* codes and tokens a client may present: every one handed out so far and one
\* that never was
PresentableCodes == (DOMAIN issued) \cup {<<"nocode">>}

PresentableTokens == (DOMAIN minted) \cup {<<"notoken">>}

AuthorizationHeaders ==
  {Undefined, <<"Basic", "dXNlcg">>} \cup {<<"Bearer">> \o tok : tok \in PresentableTokens}

TokenBody(grant_type, code, client_id) ==
  [method |-> "POST", grant_type |-> grant_type, code |-> code, client_id |-> client_id]

\* the token requests sent: every presentable code with every client id, and
\* one request for each way of being malformed
TokenRequests ==
  { TokenBody(<<"authorization_code">>, code, c) : code \in PresentableCodes, c \in ClientIds }
    \cup { [TokenBody(<<"authorization_code">>, <<"nocode">>, <<"c1">>) EXCEPT !.method = "GET"],
           TokenBody(<<"refresh_token">>, <<"nocode">>, <<"c1">>),
           TokenBody(<<"authorization_code">>, Undefined, <<"c1">>),
           TokenBody(<<"authorization_code">>, <<"nocode">>, Undefined) }

\* the requests sent to a protected route
ProtectedRequests ==
  { [method |-> m, authorization |-> h] : m \in {"POST", "GET"}, h \in AuthorizationHeaders }

\* lines 297-309: the checks handleToken makes before it calls exchangeCode
handleToken_rejects(req) ==
  \/ req.method # "POST"
  \/ req.grant_type # <<"authorization_code">>
  \/ ~Truthy(req.code)
  \/ ~Truthy(req.client_id)

\* variant of the 200 body that hands out the upstream provider's token; C10
\* must not hold of it
handleToken_body_upstream(result) ==
  [access_token |-> result.props.accessToken,
   token_type   |-> result.tokenType,
   expires_in   |-> result.expiresIn,
   scope        |-> result.scope]

\* lines 317-322: the body of the 200 response
handleToken_body(result) ==
  [access_token |-> result.accessToken,
   token_type   |-> result.tokenType,
   expires_in   |-> result.expiresIn,
   scope        |-> result.scope]

handleToken_on(store, req, skew) ==
  LET result == exchangeCode(store, req.code, req.client_id,
                             generateCode("token", nextId.token + 1), now, now + skew)
  IN  IF req.method # "POST"
      THEN Outcome(Response(405, [error |-> "Method not allowed"]), store)
      ELSE IF req.grant_type # <<"authorization_code">>
      THEN Outcome(Response(400, [error |-> "unsupported_grant_type"]), store)
      ELSE IF ~Truthy(req.code) \/ ~Truthy(req.client_id)
      THEN Outcome(Response(400, [error |-> "invalid_request"]), store)
      ELSE IF result.ret = Null
      THEN Outcome(Response(400, [error |-> "invalid_grant"]), result.store)
      ELSE IF result.ret = Throw
      THEN Outcome(Unhandled, result.store)
      ELSE Outcome(Response(200, handleToken_body(result.ret)), result.store)

handleToken_outcome(req, skew) == handleToken_on(memoryStore, req, skew)

\* a token request; the clock advances by skew between line 192 of part_003
\* and line 98 of storage.ts when a token is stored
handleToken(req, skew) ==
  LET out         == handleToken_outcome(req, skew)
      accessToken == generateCode("token", nextId.token + 1)
      stateData   == getOAuthState(memoryStore, req.code, now).ret
      accepts     == ~handleToken_rejects(req) /\ exchangeCode_accepts(stateData, req.client_id)
  IN  /\ deployed = "ts"
      /\ accepts => Cardinality(DOMAIN minted) < MaxTokens
      /\ ~accepts => skew = 0
      /\ memoryStore' = out.store
      /\ nextId' = IF accepts THEN [nextId EXCEPT !.token = @ + 1] ELSE nextId
      /\ now' = now + skew
      /\ IF out.res.status = 200
         THEN /\ redeemed' = Bump(redeemed, req.code)
              /\ minted' = MapSet(minted, accessToken,
                             [props |-> stateData.props, at |-> now, code |-> req.code])
         ELSE UNCHANGED <<redeemed, minted>>
      /\ UNCHANGED <<written, deployed, jsMemoryStore, issued, handed, passed, registered,
                     pc, call>>

\* part_001 extractAuth
extractAuth(store, authHeader, t) ==
  IF ~Truthy(authHeader) \/ ~startsWith(authHeader, <<"Bearer">>)
  THEN [ret |-> Null, store |-> store]
  ELSE validateToken(store, Tail(authHeader), t)

\* handleJSONRPC and handleSSE are the SDK's dispatch; it answers or throws
DispatchOutcomes == {"ok", "throws"}

handleMCPEndpoint_outcome(req, dispatch) ==
  LET auth == extractAuth(memoryStore, req.authorization, now)
  IN  IF req.method # "POST"
      THEN Outcome(Response(405, [error |-> "Method not allowed"]), memoryStore)
      ELSE IF auth.ret = Null
      THEN Outcome(Response(401, [error |-> "Unauthorized"]), auth.store)
      ELSE [Outcome(IF dispatch = "ok" THEN Response(200, [jsonrpc |-> "2.0"])
                    ELSE Response(500, [error |-> "MCP request failed"]),
                    auth.store)
            EXCEPT !.dispatched = auth.ret]

handleMCPEndpoint(req, dispatch) ==
  /\ deployed = "ts"
  /\ memoryStore' = handleMCPEndpoint_outcome(req, dispatch).store
  /\ UNCHANGED <<written, deployed, now, jsMemoryStore, nextId, issued, redeemed, minted,
                 handed, passed, registered, pc, call>>

handleSSEEndpoint_outcome(req, dispatch) ==
  LET auth == extractAuth(memoryStore, req.authorization, now)
  IN  IF auth.ret = Null
      THEN Outcome(Response(401, [error |-> "Unauthorized"]), auth.store)
      ELSE [Outcome(IF dispatch = "ok" THEN Response(200, [stream |-> "text/event-stream"])
                    ELSE Response(500, [error |-> "SSE connection failed"]),
                    auth.store)
            EXCEPT !.dispatched = auth.ret]

handleSSEEndpoint(req, dispatch) ==
  /\ deployed = "ts"
  /\ memoryStore' = handleSSEEndpoint_outcome(req, dispatch).store
  /\ UNCHANGED <<written, deployed, now, jsMemoryStore, nextId, issued, redeemed, minted,
                 handed, passed, registered, pc, call>>

\* variant of generateClientId that returns the same id every time; C14 must
\* not hold of it
generateClientId_fixed(n) == <<"gtm_">> \o generateCode("client", 1)

\* part_003 generateClientId
generateClientId(n) == <<"gtm_">> \o generateCode("client", n)

\* part_003 registerClient: the Map afterwards
registerClient_store(store, params, clientId, clientSecret, t) ==
  storeOAuthClient(store,
                   [clientId |-> clientId, clientSecret |-> clientSecret,
                    redirectUris |-> params.redirectUris, name |-> params.name,
                    createdAt |-> t],
                   t)

\* part_003 lookupClient
lookupClient(store, clientId, t) == getOAuthClient(store, clientId, t)

\* the redirect_uris member of a register body: absent, a string, or an array
RedirectUriValues ==
  { [kind |-> "absent", items |-> <<>>],
    [kind |-> "string", items |-> <<"https://app.example/cb">>],
    [kind |-> "array", items |-> <<>>],
    [kind |-> "array", items |-> <<"https://app.example/cb">>] }

\* the register requests sent
RegisterRequests ==
  { [method |-> "POST", redirect_uris |-> r, client_name |-> <<"app">>] : r \in RedirectUriValues }
    \cup { [method |-> "POST",
            redirect_uris |-> [kind |-> "array", items |-> <<"https://app.example/cb">>],
            client_name |-> Undefined],
           [method |-> "GET",
            redirect_uris |-> [kind |-> "array", items |-> <<"https://app.example/cb">>],
            client_name |-> <<"app">>] }

\* variant of the test of line 335 that lets an empty list through; C19 must
\* not hold of it
handleRegister_invalid_allowsEmpty(redirect_uris) == redirect_uris.kind # "array"

\* line 335: the test on redirect_uris
handleRegister_invalid(redirect_uris) ==
  redirect_uris.kind # "array" \/ Len(redirect_uris.items) = 0

handleRegister_outcome(req) ==
  LET clientId     == generateClientId(nextId.client + 1)
      clientSecret == generateCode("secret", nextId.secret + 1)
  IN  IF req.method # "POST"
      THEN Outcome(Response(405, [error |-> "Method not allowed"]), memoryStore)
      ELSE IF handleRegister_invalid(req.redirect_uris)
      THEN Outcome(Response(400, [error |-> "invalid_redirect_uri"]), memoryStore)
      ELSE Outcome(Response(201, [client_id     |-> clientId,
                                  client_secret |-> clientSecret,
                                  redirect_uris |-> req.redirect_uris,
                                  client_name   |-> req.client_name]),
                   registerClient_store(memoryStore,
                     [redirectUris |-> req.redirect_uris.items,
                      name |-> OrElse(req.client_name, <<"MCP Client">>)],
                     clientId, clientSecret, now))

\* a register request, in a behaviour that registers at most limit clients
handleRegister_upTo(limit, req) ==
  LET out == handleRegister_outcome(req)
  IN  /\ deployed = "ts"
      /\ out.res.status = 201 => Cardinality(registered) < limit
      /\ memoryStore' = out.store
      /\ nextId' = IF out.res.status = 201
                   THEN [nextId EXCEPT !.client = @ + 1, !.secret = @ + 1]
                   ELSE nextId
      /\ registered' = IF out.res.status = 201
                       THEN registered \cup {generateClientId(nextId.client + 1)}
                       ELSE registered
      /\ UNCHANGED <<written, deployed, now, jsMemoryStore, issued, redeemed, minted,
                     handed, passed, pc, call>>

handleRegister(req) == handleRegister_upTo(MaxClients, req)

\* storage.ts listUserGrants: the values found under the user's grant prefix
listUserGrants(store, userId, t) ==
  { JSON_parse(storage_get(store, k, t)) :
      k \in {x \in storage_list(store, UserGrantPrefix(userId)) :
               storage_get(store, x, t) # Null} }

\* storage.ts listUserGrants: the Map afterwards (lazy eviction by get)
listUserGrants_store(store, userId, t) ==
  [k \in {x \in DOMAIN store :
            ~(startsWith(x, UserGrantPrefix(userId)) /\ ItemExpired(store[x], t))}
     |-> store[k]]

\* the id member of a listed value, undefined when it has none
GrantId(grant) == IF "id" \in DOMAIN grant THEN grant.id ELSE Undefined

\* variant of revokeGrant that deletes the token records as well; C21 must
\* not hold of it
revokeGrant_cascades(store, grantId, userId) ==
  [k \in {x \in DOMAIN store : /\ x # GrantKey(grantId)
                                 /\ x # UserGrantKey(userId, grantId)
                                 /\ ~startsWith(x, <<"oauth", "token">>)} |-> store[k]]

\* variant of revokeGrant that deletes the grant record and leaves the entry
\* listed under the user; C11 must not hold of it
revokeGrant_leavesIndex(store, grantId, userId) ==
  storage_delete(store, GrantKey(grantId))

\* storage.ts revokeGrant
revokeGrant(store, grantId, userId) ==
  storage_delete(storage_delete(store, GrantKey(grantId)), UserGrantKey(userId, grantId))

\* line 403: Promise.all over revokeGrant; deletions commute
RECURSIVE revokeGrants(_, _)
revokeGrants(store, grants) ==
  IF grants = {} THEN store
  ELSE LET grant == CHOOSE g \in grants : TRUE
       IN  revokeGrants(revokeGrant(store, GrantId(grant), grant.userId), grants \ {grant})

\* what the upstream provider's revoke endpoint does: it answers, or fetch rejects
RevokeOutcomes == {"ok", "throws"}

\* the remove requests sent: for each client id known, and one without each
\* of the three parameters
RemoveRequests ==
  IF deployed # "ts" THEN {}
  ELSE { [userId |-> u, clientId |-> c, accessToken |-> UpstreamToken(u)] :
           u \in UserIds, c \in {<<"c1">>} \cup registered }
         \cup { [userId |-> Undefined, clientId |-> <<"c1">>,
                 accessToken |-> UpstreamToken(<<"u1">>)],
                [userId |-> <<"u1">>, clientId |-> Undefined,
                 accessToken |-> UpstreamToken(<<"u1">>)],
                [userId |-> <<"u1">>, clientId |-> <<"c1">>, accessToken |-> Undefined] }

\* variant of handleRemove that revokes the grants of the named client only;
\* C36 must not hold of it
handleRemove_outcome_ownClient(req, revoke) ==
  LET grants  == {g \in listUserGrants(memoryStore, req.userId, now) :
                    g.clientId = req.clientId}
      listed  == listUserGrants_store(memoryStore, req.userId, now)
      revoked == revokeGrants(listed, grants)
      deleted == deleteOAuthClient(revoked, req.clientId)
  IN  IF ~Truthy(req.userId) \/ ~Truthy(req.clientId) \/ ~Truthy(req.accessToken)
      THEN Outcome(Response(400, [error |-> "Invalid request"]), memoryStore)
      ELSE IF revoke = "throws"
      THEN [Outcome(Unhandled, deleted) EXCEPT !.upstream = TRUE]
      ELSE [Outcome(Response(200, [status |-> "OK"]), deleted) EXCEPT !.upstream = TRUE]

handleRemove_outcome(req, revoke) ==
  LET grants  == listUserGrants(memoryStore, req.userId, now)
      listed  == listUserGrants_store(memoryStore, req.userId, now)
      revoked == revokeGrants(listed, grants)
      deleted == deleteOAuthClient(revoked, req.clientId)
  IN  IF ~Truthy(req.userId) \/ ~Truthy(req.clientId) \/ ~Truthy(req.accessToken)
      THEN Outcome(Response(400, [error |-> "Invalid request"]), memoryStore)
      ELSE IF revoke = "throws"
      THEN [Outcome(Unhandled, deleted) EXCEPT !.upstream = TRUE]
      ELSE [Outcome(Response(200, [status |-> "OK"]), deleted) EXCEPT !.upstream = TRUE]

handleRemove(req, revoke) ==
  /\ deployed = "ts"
  /\ memoryStore' = handleRemove_outcome(req, revoke).store
  /\ UNCHANGED <<written, deployed, now, jsMemoryStore, nextId, issued, redeemed, minted,
                 handed, passed, registered, pc, call>>

\* ---------------------------------- part_000: the self-contained handler
\* variant of storageGet that does not look at the expiry; C8 must not hold
\* of it
storageGet_ignoresExpiry(store, key, t) ==
  IF key \notin DOMAIN store THEN Null ELSE store[key].value

storageGet(store, key, t) ==
  IF key \notin DOMAIN store THEN Null
  ELSE IF store[key].expiry # 0 /\ t > store[key].expiry THEN Null
  ELSE store[key].value

\* the Map after storageGet (lazy eviction)
storageGet_store(store, key, t) ==
  IF key \in DOMAIN store /\ store[key].expiry # 0 /\ t > store[key].expiry
  THEN MapDelete(store, key)
  ELSE store

\* storageSet; ttl 0 stands for a falsy ttl (0 or undefined)
storageSet(store, key, value, ttl, t) ==
  MapSet(store, key,
         [value |-> value,
          expiry |-> IF ttl # 0 THEN t + (ttl * MsPerSecond) ELSE 0])

\* the token string, or Undefined for null
extractToken(auth) ==
  IF Truthy(auth) /\ startsWith(auth, <<"Bearer">>) THEN Tail(auth) ELSE Undefined

mcpError(id, code, message) ==
  [jsonrpc |-> "2.0", error |-> [code |-> code, message |-> message], id |-> id]

\* the catch block of the handler
InternalServerError ==
  Response(500, [error |-> "Internal server error", message |-> "error.message"])

\* the callback requests sent to part_000, whose state values are strings
JsCallbackRequests ==
  IF deployed # "js" THEN {}
  ELSE { [code |-> <<"gc1">>, state |-> st] : st \in (DOMAIN handed) \cup {<<"forged">>} }
         \cup { [code |-> Undefined, state |-> <<"forged">>],
                [code |-> <<"gc1">>, state |-> Undefined] }

js_authorize_on(store, req) ==
  LET clientId    == OrElse(req.query.client_id, EmptyString)
      redirectUri == OrElse(req.query.redirect_uri, EmptyString)
      state       == OrElse(req.query.state, EmptyString)
      authState   == generateCode("state", nextId.state + 1)
  IN  IF ~Truthy(clientId) \/ ~Truthy(redirectUri)
      THEN Outcome(Response(400, [error |-> "Missing client_id or redirect_uri"]), store)
      ELSE Outcome(Redirect([url |-> <<"https://accounts.google.com/o/oauth2/v2/auth">>,
                             state |-> authState]),
                   storageSet(store, <<"auth">> \o authState,
                              JSON_stringify([clientId |-> clientId,
                                              redirectUri |-> redirectUri,
                                              state |-> state]),
                              JsAuthTTL, now))

js_authorize_outcome(req) == js_authorize_on(jsMemoryStore, req)

js_authorize(req) ==
  LET out == js_authorize_outcome(req)
  IN  /\ deployed = "js"
      /\ out.res.status = 302 => Cardinality(DOMAIN handed) < MaxStates
      /\ jsMemoryStore' = out.store
      /\ nextId' = IF out.res.status = 302 THEN [nextId EXCEPT !.state = @ + 1] ELSE nextId
      /\ handed' = IF out.res.status = 302
                   THEN MapSet(handed, generateCode("state", nextId.state + 1), now)
                   ELSE handed
      /\ UNCHANGED <<written, deployed, now, memoryStore, issued, redeemed, minted, passed,
                     registered, pc, call>>

\* lines 338-341: the state check of the callback route
js_callback_passes(req) ==
  /\ Truthy(req.code)
  /\ Truthy(req.state)
  /\ storageGet(jsMemoryStore, <<"auth">> \o req.state, now) # Null

\* lines 358-364: the record stored under the broker's token
js_callback_tokenData_on(store, req, up, userId) ==
  LET parsed == JSON_parse(storageGet(store, <<"auth">> \o req.state, now))
      user   == IF up = "userinfo_fails"
                THEN [id |-> Undefined, name |-> Undefined, email |-> Undefined]
                ELSE UserInfo(userId)
  IN  [accessToken |-> UpstreamToken(userId), userId |-> user.id,
       name |-> user.name, email |-> user.email, clientId |-> parsed.clientId]

js_callback_tokenData(req, up, userId) == js_callback_tokenData_on(jsMemoryStore, req, up, userId)

js_callback_on(store, req, up, userId) ==
  LET stateData == storageGet(store, <<"auth">> \o req.state, now)
      afterGet  == storageGet_store(store, <<"auth">> \o req.state, now)
      parsed    == JSON_parse(stateData)
      ourToken  == generateCode("token", nextId.token + 1)
      authCode  == generateCode("code", nextId.code + 1)
      called(res, st) == [Outcome(res, st) EXCEPT !.upstream = TRUE]
  IN  IF ~Truthy(req.code) \/ ~Truthy(req.state)
      THEN Outcome(Response(400, [error |-> "Missing code or state"]), store)
      ELSE IF stateData = Null
      THEN Outcome(Response(400, [error |-> "Invalid state"]), afterGet)
      ELSE IF up = "token_throws" \/ up = "userinfo_throws"
      THEN called(InternalServerError, afterGet)
      ELSE IF up = "reject"
      THEN called(Response(400, [error |-> "Failed to exchange code"]), afterGet)
      ELSE called(
             IF ~IsAbsoluteUrl(parsed.redirectUri) THEN InternalServerError
             ELSE Redirect([url   |-> parsed.redirectUri,
                            code  |-> authCode,
                            state |-> IF Truthy(parsed.state) THEN parsed.state
                                      ELSE Undefined]),
             storageSet(
               storageSet(afterGet, <<"token">> \o ourToken,
                          JSON_stringify(js_callback_tokenData_on(store, req, up, userId)),
                          JsTokenTTL, now),
               <<"code">> \o authCode,
               JSON_stringify([token |-> ourToken, clientId |-> parsed.clientId]),
               JsCodeTTL, now))

js_callback_outcome(req, up, userId) == js_callback_on(jsMemoryStore, req, up, userId)

js_callback(req, up, userId) ==
  LET out      == js_callback_outcome(req, up, userId)
      stores   == js_callback_passes(req) /\ up \in {"ok", "userinfo_fails"}
      ourToken == generateCode("token", nextId.token + 1)
      authCode == generateCode("code", nextId.code + 1)
  IN  /\ deployed = "js"
      /\ stores => Cardinality(DOMAIN issued) < MaxCodes
      /\ jsMemoryStore' = out.store
      /\ nextId' = IF stores
                   THEN [nextId EXCEPT !.token = @ + 1, !.code = @ + 1]
                   ELSE nextId
      /\ issued' = IF stores
                   THEN MapSet(issued, authCode,
                               [clientId |-> js_callback_tokenData(req, up, userId).clientId,
                                at |-> now])
                   ELSE issued
      /\ minted' = IF stores
                   THEN MapSet(minted, ourToken,
                               [props |-> js_callback_tokenData(req, up, userId),
                                at |-> now, code |-> authCode])
                   ELSE minted
      /\ passed' = IF out.upstream /\ req.state \in DOMAIN handed
                   THEN Bump(passed, req.state)
                   ELSE passed
      /\ UNCHANGED <<written, deployed, now, memoryStore, redeemed, handed, registered, pc, call>>

\* lines 394-399: the body of the 200 response of the token route
js_token_body(codeData) ==
  [access_token |-> JSON_parse(codeData).token,
   token_type   |-> "Bearer",
   expires_in   |-> JsExpiresIn]

js_token_on(store, req) ==
  LET codeData == storageGet(store, <<"code">> \o req.code, now)
      afterGet == storageGet_store(store, <<"code">> \o req.code, now)
  IN  IF req.method # "POST"
      THEN Outcome(Response(405, [error |-> "Method not allowed"]), store)
      ELSE IF req.grant_type # <<"authorization_code">> \/ ~Truthy(req.code)
      THEN Outcome(Response(400, [error |-> "invalid_request"]), store)
      ELSE IF codeData = Null
      THEN Outcome(Response(400, [error |-> "invalid_grant"]), afterGet)
      ELSE Outcome(Response(200, js_token_body(codeData)), afterGet)

js_token_outcome(req) == js_token_on(jsMemoryStore, req)

js_token(req) ==
  LET out == js_token_outcome(req)
  IN  /\ deployed = "js"
      /\ jsMemoryStore' = out.store
      /\ redeemed' = IF out.res.status = 200 THEN Bump(redeemed, req.code) ELSE redeemed
      /\ UNCHANGED <<written, deployed, now, memoryStore, nextId, issued, minted, handed,
                     passed, registered, pc, call>>

\* variant of the mcp route that tells an expired token from an unknown one;
\* C9 must not hold of it
js_mcp_outcome_tellsExpired(req, dispatch) ==
  LET token == extractToken(req.authorization)
      key   == <<"token">> \o token
      found == storageGet(jsMemoryStore, key, now)
      after == storageGet_store(jsMemoryStore, key, now)
  IN  IF req.method # "POST"
      THEN Outcome(Response(405, [error |-> "Method not allowed"]), jsMemoryStore)
      ELSE IF ~Truthy(token)
      THEN Outcome(Response(401, mcpError(Null, -32600, "Unauthorized")), jsMemoryStore)
      ELSE IF found = Null /\ key \in DOMAIN jsMemoryStore
      THEN Outcome(Response(401, mcpError(Null, -32600, "Token expired")), after)
      ELSE IF found = Null
      THEN Outcome(Response(401, mcpError(Null, -32600, "Invalid token")), after)
      ELSE [Outcome(IF dispatch = "ok" THEN Response(200, [jsonrpc |-> "2.0"])
                    ELSE InternalServerError,
                    after)
            EXCEPT !.dispatched = JSON_parse(found)]

\* handleMcpRequest answers, or throws before its own try block
js_mcp_outcome(req, dispatch) ==
  LET token     == extractToken(req.authorization)
      tokenData == storageGet(jsMemoryStore, <<"token">> \o token, now)
      afterGet  == storageGet_store(jsMemoryStore, <<"token">> \o token, now)
  IN  IF req.method # "POST"
      THEN Outcome(Response(405, [error |-> "Method not allowed"]), jsMemoryStore)
      ELSE IF ~Truthy(token)
      THEN Outcome(Response(401, mcpError(Null, -32600, "Unauthorized")), jsMemoryStore)
      ELSE IF tokenData = Null
      THEN Outcome(Response(401, mcpError(Null, -32600, "Invalid token")), afterGet)
      ELSE [Outcome(IF dispatch = "ok" THEN Response(200, [jsonrpc |-> "2.0"])
                    ELSE InternalServerError,
                    afterGet)
            EXCEPT !.dispatched = JSON_parse(tokenData)]

js_mcp(req, dispatch) ==
  /\ deployed = "js"
  /\ jsMemoryStore' = js_mcp_outcome(req, dispatch).store
  /\ UNCHANGED <<written, deployed, now, memoryStore, nextId, issued, redeemed, minted,
                 handed, passed, registered, pc, call>>

js_register_outcome(req) ==
  LET clientId     == generateClientId(nextId.client + 1)
      clientSecret == generateCode("secret", nextId.secret + 1)
  IN  IF req.method # "POST"
      THEN Outcome(Response(405, [error |-> "Method not allowed"]), jsMemoryStore)
      ELSE Outcome(Response(201, [client_id |-> clientId, client_secret |-> clientSecret]),
                   storageSet(jsMemoryStore, <<"client">> \o clientId,
                              JSON_stringify([clientSecret |-> clientSecret,
                                              redirectUris |-> req.redirect_uris,
                                              name |-> req.client_name]),
                              0, now))

js_register(req) ==
  LET out == js_register_outcome(req)
  IN  /\ deployed = "js"
      /\ out.res.status = 201 => Cardinality(registered) < MaxClients
      /\ jsMemoryStore' = out.store
      /\ nextId' = IF out.res.status = 201
                   THEN [nextId EXCEPT !.client = @ + 1, !.secret = @ + 1]
                   ELSE nextId
      /\ registered' = IF out.res.status = 201
                       THEN registered \cup {generateClientId(nextId.client + 1)}
                       ELSE registered
      /\ UNCHANGED <<written, deployed, now, memoryStore, issued, redeemed, minted, handed,
                     passed, pc, call>>

\* ------------------------------------------------------------ the clock
\* instants at which some stored item or token changes from live to expired
Deadlines ==
  {memoryStore[k].expiry : k \in DOMAIN memoryStore}
    \cup {jsMemoryStore[k].expiry : k \in DOMAIN jsMemoryStore}
    \cup {JSON_parse(memoryStore[k].value).expiresAt :
            k \in {x \in DOMAIN memoryStore : startsWith(x, <<"oauth", "token">>)}}

\* time passes between requests: up to a deadline, or just past it
Tick ==
  /\ \E d \in Deadlines : \E t \in {d, d + 1} : t > now /\ now' = t
  /\ UNCHANGED <<written, deployed, memoryStore, jsMemoryStore, nextId, issued, redeemed,
                 minted, handed, passed, registered, pc, call>>

Init ==
  /\ deployed \in {"ts", "js"}
  /\ now = 1
  /\ memoryStore = EmptyMap
  /\ jsMemoryStore = EmptyMap
  /\ nextId = [k \in IdKinds |-> 0]
  /\ issued = EmptyMap
  /\ redeemed = EmptyMap
  /\ minted = EmptyMap
  /\ handed = EmptyMap
  /\ passed = EmptyMap
  /\ registered = {}
  /\ written = EmptyMap
  /\ pc = [p \in Calls |-> "idle"]
  /\ call = [p \in Calls |-> Null]

Next ==
  \/ \E req \in AuthorizeRequests : handleAuthorize(req)
  \/ \E req \in CallbackRequests, up \in UpstreamOutcomes, u \in UserIds :
       handleCallback(req, up, u)
  \/ \E req \in TokenRequests, skew \in 0..MaxSkew : handleToken(req, skew)
  \/ \E req \in ProtectedRequests, d \in DispatchOutcomes : handleMCPEndpoint(req, d)
  \/ \E req \in ProtectedRequests, d \in DispatchOutcomes : handleSSEEndpoint(req, d)
  \/ \E req \in AuthorizeRequests : js_authorize(req)
  \/ \E req \in JsCallbackRequests, up \in UpstreamOutcomes, u \in UserIds :
       js_callback(req, up, u)
  \/ \E req \in TokenRequests : js_token(req)
  \/ \E req \in ProtectedRequests, d \in DispatchOutcomes : js_mcp(req, d)
  \/ Tick

Spec == Init /\ [][Next]_vars

\* ------------------------------------------------- every route of /api
\* All the routes, the registry's included, serving requests within the
\* lifetime of what they store: the clock advances by the skew only.
RouteNext ==
  \/ \E req \in AuthorizeRequests : handleAuthorize(req)
  \/ \E req \in CallbackRequests, up \in UpstreamOutcomes, u \in UserIds :
       handleCallback(req, up, u)
  \/ \E req \in TokenRequests, skew \in 0..MaxSkew : handleToken(req, skew)
  \/ \E req \in RegisterRequests : handleRegister(req)
  \/ \E req \in ProtectedRequests, d \in DispatchOutcomes : handleMCPEndpoint(req, d)
  \/ \E req \in ProtectedRequests, d \in DispatchOutcomes : handleSSEEndpoint(req, d)
  \/ \E req \in RemoveRequests, r \in RevokeOutcomes : handleRemove(req, r)
  \/ \E req \in AuthorizeRequests : js_authorize(req)
  \/ \E req \in JsCallbackRequests, up \in UpstreamOutcomes, u \in UserIds :
       js_callback(req, up, u)
  \/ \E req \in TokenRequests : js_token(req)
  \/ \E req \in RegisterRequests : js_register(req)
  \/ \E req \in ProtectedRequests, d \in DispatchOutcomes : js_mcp(req, d)

RouteSpec == Init /\ [][RouteNext]_vars

\* ------------------------- overlapping token requests (part_001, part_003)
\* A token request that passed handleToken's checks runs exchangeCode; every
\* await hands control to the other request.  The Map operation of an awaited
\* storage call runs when the call is made, its continuation after the await.

\* handleToken line 312 to storage.ts line 143: exchangeCode, getOAuthState and
\* MemoryStorage.get run up to the first await
exchangeCode_call(p, code, clientId) ==
  /\ deployed = "ts"
  /\ pc[p] = "idle"
  /\ pc' = [pc EXCEPT ![p] = "awaitGet"]
  /\ call' = [call EXCEPT ![p] =
                [code |-> code, clientId |-> clientId,
                 data |-> storage_get(memoryStore, StateKey(code), now),
                 token |-> Null, ttl |-> 0, result |-> Null]]
  /\ memoryStore' = storage_get_store(memoryStore, StateKey(code), now)
  /\ UNCHANGED <<written, deployed, passed, registered, now, jsMemoryStore, nextId, issued, redeemed,
                 minted, handed>>

\* storage.ts lines 144-148 after the get: delete and await, or return null,
\* on which exchangeCode returns null
exchangeCode_afterGet(p) ==
  /\ pc[p] = "awaitGet"
  /\ IF call[p].data # Null
     THEN /\ memoryStore' = storage_delete(memoryStore, StateKey(call[p].code))
          /\ pc' = [pc EXCEPT ![p] = "awaitDelete"]
     ELSE /\ memoryStore' = memoryStore
          /\ pc' = [pc EXCEPT ![p] = "done"]
  /\ UNCHANGED <<written, deployed, passed, registered, now, jsMemoryStore, nextId, issued, redeemed,
                 minted, handed, call>>

\* storage.ts line 146 and part_003 lines 180-194, storage.ts lines 98-99:
\* the clientId test, the new token and the first set of storeOAuthToken
exchangeCode_afterDelete(p, skew) ==
  LET stateData   == JSON_parse(call[p].data)
      accessToken == generateCode("token", nextId.token + 1)
      token       == exchangeCode_token(stateData, call[p].clientId, accessToken, now)
      ttl         == TokenTtl(token, now + skew)
  IN  /\ pc[p] = "awaitDelete"
      /\ IF ~exchangeCode_accepts(stateData, call[p].clientId)
         THEN /\ pc' = [pc EXCEPT ![p] = "done"]
              /\ UNCHANGED <<now, memoryStore, nextId, call>>
         ELSE /\ nextId' = [nextId EXCEPT !.token = @ + 1]
              /\ now' = now + skew
              /\ memoryStore' = storeOAuthToken_byToken(memoryStore, token, ttl, now + skew)
              /\ call' = [call EXCEPT ![p].token = token, ![p].ttl = ttl]
              /\ pc' = [pc EXCEPT ![p] = "awaitSet1"]
      /\ UNCHANGED <<written, deployed, passed, registered, jsMemoryStore, issued, redeemed, minted, handed>>

\* storage.ts line 100: the second set of storeOAuthToken
exchangeCode_afterSet1(p) ==
  /\ pc[p] = "awaitSet1"
  /\ memoryStore' = storeOAuthToken_byUser(memoryStore, call[p].token, call[p].ttl, now)
  /\ pc' = [pc EXCEPT ![p] = "awaitSet2"]
  /\ UNCHANGED <<written, deployed, passed, registered, now, jsMemoryStore, nextId, issued, redeemed,
                 minted, handed, call>>

\* part_003 lines 196-202: the value exchangeCode returns to handleToken
exchangeCode_afterSet2(p) ==
  LET stateData == JSON_parse(call[p].data)
      result    == exchangeCode_result(stateData, call[p].token.accessToken)
  IN  /\ pc[p] = "awaitSet2"
      /\ pc' = [pc EXCEPT ![p] = "done"]
      /\ call' = [call EXCEPT ![p].result = result]
      /\ IF result = Throw
         THEN UNCHANGED <<redeemed, minted>>
         ELSE /\ redeemed' = Bump(redeemed, call[p].code)
              /\ minted' = MapSet(minted, call[p].token.accessToken,
                             [props |-> result.props,
                              at |-> call[p].token.expiresAt - (TokenExpiresIn * MsPerSecond),
                              code |-> call[p].code])
      /\ UNCHANGED <<written, deployed, passed, registered, now, memoryStore, jsMemoryStore, nextId,
                     issued, handed>>

ConcInit == Init /\ deployed = "ts"

\* the authorization that precedes the token requests goes through: a complete
\* authorize request and a callback that the upstream provider accepts; the
\* requests are served within the lifetime of the code, the clock advancing by
\* the skew only
ConcNext ==
  \/ \E req \in {r \in AuthorizeRequests : r.method = "GET" /\ Truthy(r.query.redirect_uri)} :
       handleAuthorize(req)
  \/ \E st \in DOMAIN handed, u \in UserIds :
       handleCallback([code |-> <<"gc1">>, state |-> st], "ok", u)
  \/ \E p \in Calls, code \in PresentableCodes, c \in ClientIds :
       exchangeCode_call(p, code, c)
  \/ \E p \in Calls : exchangeCode_afterGet(p)
  \/ \E p \in Calls, skew \in 0..MaxSkew : exchangeCode_afterDelete(p, skew)
  \/ \E p \in Calls : exchangeCode_afterSet1(p)
  \/ \E p \in Calls : exchangeCode_afterSet2(p)

ConcSpec == ConcInit /\ [][ConcNext]_vars

\* ------------------------------- a user authorizes the same client again
\* part_001 serving authorize requests, the callbacks that follow them and
\* token requests, within the lifetime of the codes
CompleteAuthorizeRequests ==
  {r \in AuthorizeRequests : r.method = "GET" /\ Truthy(r.query.redirect_uri)
                                /\ Truthy(r.query.client_id)}

ReauthNext ==
  \/ \E req \in AuthorizeRequests : handleAuthorize(req)
  \/ \E st \in DOMAIN handed, up \in UpstreamOutcomes, u \in UserIds :
       handleCallback_upTo(MaxReauthCodes, [code |-> <<"gc1">>, state |-> st], up, u)
  \/ \E req \in TokenRequests, skew \in 0..MaxSkew : handleToken(req, skew)

ReauthSpec == ConcInit /\ [][ReauthNext]_vars

\* ------------------------------------------------- the client registry
\* part_001 serving register and remove requests next to the authorizations
\* that record grants
RegistryNext ==
  \/ \E req \in CompleteAuthorizeRequests : handleAuthorize(req)
  \/ \E st \in DOMAIN handed, up \in UpstreamOutcomes, u \in UserIds :
       handleCallback_upTo(MaxReauthCodes, [code |-> <<"gc1">>, state |-> st], up, u)
  \/ \E req \in RegisterRequests : handleRegister_upTo(MaxRegistrations, req)
  \/ \E req \in RemoveRequests, r \in RevokeOutcomes : handleRemove(req, r)

RegistrySpec == ConcInit /\ [][RegistryNext]_vars

\* ------------------------------------------------- a registered client
\* part_001 registering clients and serving the authorizations of the
\* registered clients, the callbacks that follow them and their token requests
RegisteredAuthorizeRequests ==
  { [method |-> "GET", query |-> Query(c, <<"https://app.example/cb">>, <<"xyz">>)] :
      c \in registered }

RegisteredTokenRequests ==
  { TokenBody(<<"authorization_code">>, code, c) : code \in DOMAIN issued, c \in registered }

ClientNext ==
  \/ \E req \in RegisterRequests : handleRegister_upTo(MaxRegistrations, req)
  \/ \E req \in RegisteredAuthorizeRequests : handleAuthorize(req)
  \/ \E st \in DOMAIN handed, up \in UpstreamOutcomes, u \in UserIds :
       handleCallback_upTo(MaxReauthCodes, [code |-> <<"gc1">>, state |-> st], up, u)
  \/ \E req \in RegisteredTokenRequests : handleToken(req, 0)

ClientSpec == ConcInit /\ [][ClientNext]_vars

\* ---------------------------------------------------------- the dispatchers
\* The four handler implementations: part_001, part_000 and the two stubs in
\* src/api.  A request is its method and the value of its path parameter, ""
\* when it has none.
Methods == {"GET", "POST", "OPTIONS"}

Paths ==
  {"", "/", "privacy", "terms", "authorize", "callback", "token", "register",
   "sse", "mcp", "remove", "Authorize", "api/authorize", "admin"}

DispatchRequests == [method : Methods, path : Paths]

\* the pages and inline answers of the switches
PageRoutes == {"", "/", "privacy", "terms"}

\* variant of handler_route that looks at the path before the method; C30 must
\* not hold of it
handler_route_pathFirst(method, path) ==
  IF path \in PageRoutes \cup {"authorize", "callback", "token", "register", "sse",
                               "mcp", "remove"}
  THEN path
  ELSE IF method = "OPTIONS" THEN "preflight" ELSE "default"

\* part_001 handler: the branch taken, "preflight" for the OPTIONS test of
\* lines 150-155 and "default" for the default case
handler_route(method, path) ==
  IF method = "OPTIONS" THEN "preflight"
  ELSE CASE path = ""          -> ""
         [] path = "/"         -> "/"
         [] path = "privacy"   -> "privacy"
         [] path = "terms"     -> "terms"
         [] path = "authorize" -> "authorize"
         [] path = "callback"  -> "callback"
         [] path = "token"     -> "token"
         [] path = "register"  -> "register"
         [] path = "sse"       -> "sse"
         [] path = "mcp"       -> "mcp"
         [] path = "remove"    -> "remove"
         [] OTHER              -> "default"

\* part_000 handler: the branch taken
js_handler_route(method, path) ==
  IF method = "OPTIONS" THEN "preflight"
  ELSE CASE path = ""          -> ""
         [] path = "/"         -> "/"
         [] path = "privacy"   -> "privacy"
         [] path = "terms"     -> "terms"
         [] path = "authorize" -> "authorize"
         [] path = "callback"  -> "callback"
         [] path = "token"     -> "token"
         [] path = "register"  -> "register"
         [] path = "mcp"       -> "mcp"
         [] path = "sse"       -> "sse"
         [] OTHER              -> "default"

\* the answers the two handlers give themselves: to OPTIONS, to the pages, to
\* part_000's sse case and in the default case
handler_answer(route) ==
  CASE route = "preflight" -> Response(200, Null)
    [] route = "default"   -> Response(404, [error |-> "Not found"])
    [] route = "sse"       -> Response(200, [message |-> "SSE endpoint - Use /mcp for HTTP transport instead"])
    [] OTHER               -> Response(200, [html |-> route])

handler_unrouted_outcome(req) ==
  Outcome(handler_answer(handler_route(req.method, req.path)), memoryStore)

\* part_001 answering a request that reaches no route function
handler_unrouted(req) ==
  /\ deployed = "ts"
  /\ handler_route(req.method, req.path) \in PageRoutes \cup {"preflight", "default"}
  /\ memoryStore' = handler_unrouted_outcome(req).store
  /\ UNCHANGED <<written, deployed, now, jsMemoryStore, nextId, issued, redeemed, minted,
                 handed, passed, registered, pc, call>>

js_handler_unrouted_outcome(req) ==
  Outcome(handler_answer(js_handler_route(req.method, req.path)), jsMemoryStore)

\* part_000 answering a request that reaches none of its stateful cases
js_handler_unrouted(req) ==
  /\ deployed = "js"
  /\ js_handler_route(req.method, req.path) \in PageRoutes \cup {"preflight", "default", "sse"}
  /\ jsMemoryStore' = js_handler_unrouted_outcome(req).store
  /\ UNCHANGED <<written, deployed, now, memoryStore, nextId, issued, redeemed, minted,
                 handed, passed, registered, pc, call>>

\* src/api/index.ts handler: it keeps no state
api_ts_handler_answer(method, path) ==
  IF method = "OPTIONS" THEN Response(200, Null)
  ELSE CASE path \in {"", "/", "privacy", "terms"} -> Response(200, [html |-> path])
         [] path = "authorize" -> Response(200, [message |-> "OAuth authorization endpoint"])
         [] path = "callback"  -> Response(200, [message |-> "OAuth callback endpoint"])
         [] path = "token"     ->
              IF method # "POST" THEN Response(405, [error |-> "Method not allowed"])
              ELSE Response(200, [message |-> "Token exchange endpoint"])
         [] path = "register"  ->
              IF method # "POST" THEN Response(405, [error |-> "Method not allowed"])
              ELSE Response(201, [message |-> "Client registration endpoint"])
         [] path = "mcp"       ->
              IF method # "POST" THEN Response(405, [error |-> "Method not allowed"])
              ELSE Response(200, [jsonrpc |-> "2.0"])
         [] path = "sse"       -> Response(200, [message |-> "SSE endpoint - Use /mcp for HTTP transport instead"])
         [] OTHER              -> Response(404, [error |-> "Not found", path |-> path])

\* src/api/index.js handler: it keeps no state
api_js_handler_answer(method, path) ==
  IF method = "OPTIONS" THEN Response(200, Null)
  ELSE CASE path \in {"", "/"}  -> Response(200, [html |-> path])
         [] path = "authorize" -> Response(200, [message |-> "OAuth endpoint"])
         [] path = "mcp"       -> Response(200, [jsonrpc |-> "2.0"])
         [] OTHER              -> Response(404, [error |-> "Not found", path |-> path])

api_ts_handler(req) ==
  /\ api_ts_handler_answer(req.method, req.path).status \in {200, 201, 404, 405}
  /\ UNCHANGED vars

api_js_handler(req) ==
  /\ api_js_handler_answer(req.method, req.path).status \in {200, 404}
  /\ UNCHANGED vars

\* the authorize, callback and register routes of both handlers, the requests
\* the handlers answer themselves, and the two stubs
DispatchNext ==
  \/ \E req \in AuthorizeRequests : handleAuthorize(req)
  \/ \E req \in CallbackRequests, up \in UpstreamOutcomes, u \in UserIds :
       handleCallback(req, up, u)
  \/ \E req \in RegisterRequests : handleRegister(req)
  \/ \E req \in AuthorizeRequests : js_authorize(req)
  \/ \E req \in JsCallbackRequests, up \in UpstreamOutcomes, u \in UserIds :
       js_callback(req, up, u)
  \/ \E req \in RegisterRequests : js_register(req)
  \/ \E req \in DispatchRequests : handler_unrouted(req)
  \/ \E req \in DispatchRequests : js_handler_unrouted(req)
  \/ \E req \in DispatchRequests : api_ts_handler(req)
  \/ \E req \in DispatchRequests : api_js_handler(req)

DispatchSpec == Init /\ [][DispatchNext]_vars

\* ------------------------------------------- the state sent round the upstream
\* part_001 serving authorize requests with and without the optional
\* parameters, and the callbacks that bring their state values back
PkceQuery ==
  [client_id |-> <<"c1">>, redirect_uri |-> <<"https://app.example/cb">>,
   scope |-> <<"email", "profile">>, state |-> <<"xyz">>, response_type |-> <<"token">>,
   code_challenge |-> <<"E9Melhoa">>, code_challenge_method |-> <<"S256">>]

RoundTripAuthorizeRequests ==
  AuthorizeRequests
    \cup { [method |-> "GET", query |-> Query(<<"c1">>, <<"https://app.example/cb">>, Undefined)],
           [method |-> "GET", query |-> PkceQuery],
           [method |-> "POST", query |-> [PkceQuery EXCEPT !.scope = Undefined]] }

RoundTripNext ==
  \/ \E req \in RoundTripAuthorizeRequests : handleAuthorize(req)
  \/ \E st \in DOMAIN handed, up \in UpstreamOutcomes, u \in UserIds :
       handleCallback_upTo(MaxReauthCodes, [code |-> <<"gc1">>, state |-> st], up, u)

RoundTripSpec == ConcInit /\ [][RoundTripNext]_vars

\* ------------------------------------------------- the per-user grant index
\* part_001 serving the authorizations, callbacks and token requests of two
\* clients, one of them with the client_id "grant:x", while time passes.
\* handleAuthorize accepts every client_id that is not empty.
GrantIndexClientIds == {<<"c1">>, <<"grant", "x">>}

GrantIndexAuthorizeRequests ==
  { [method |-> "GET", query |-> Query(c, <<"https://app.example/cb">>, <<"xyz">>)] :
      c \in GrantIndexClientIds }

GrantIndexTokenRequests ==
  { TokenBody(<<"authorization_code">>, code, c) :
      code \in DOMAIN issued, c \in GrantIndexClientIds }

GrantIndexNext ==
  \/ \E req \in GrantIndexAuthorizeRequests : handleAuthorize(req)
  \/ \E st \in DOMAIN handed, up \in UpstreamOutcomes, u \in UserIds :
       handleCallback_upTo(MaxReauthCodes, [code |-> <<"gc1">>, state |-> st], up, u)
  \/ \E req \in GrantIndexTokenRequests : handleToken(req, 0)
  \/ Tick

GrantIndexSpec == ConcInit /\ [][GrantIndexNext]_vars

\* ------------------------------------------------ MemoryStorage by itself
\* The calls of the StorageAdapter interface made on MemoryStorage directly,
\* with time passing between them.
StorageKeys == {<<"a">>, <<"a", "b">>}

\* the values stored are JSON texts
StorageValues == {JSON_stringify([n |-> 1]), JSON_stringify([n |-> 2])}

\* the ttl argument of set: left out, 0, or one second
TtlValues == {[given |-> FALSE, seconds |-> 0], [given |-> TRUE, seconds |-> 0],
              [given |-> TRUE, seconds |-> 1]}

\* the instants at which calls are made: each second, and 1 ms after it
StorageInstants == {1 + (i * MsPerSecond) + j : i \in 0..MaxStorageSeconds, j \in 0..1}

MemoryStorage_set(key, value, ttl) ==
  /\ memoryStore' = storage_set(memoryStore, key, value, ttl.seconds, now)
  /\ written' = MapSet(written, key, [value |-> value, at |-> now, ttl |-> ttl])
  /\ UNCHANGED <<deployed, now, jsMemoryStore, nextId, issued, redeemed, minted,
                 handed, passed, registered, pc, call>>

MemoryStorage_delete(key) ==
  /\ memoryStore' = storage_delete(memoryStore, key)
  /\ written' = MapDelete(written, key)
  /\ UNCHANGED <<deployed, now, jsMemoryStore, nextId, issued, redeemed, minted,
                 handed, passed, registered, pc, call>>

MemoryStorage_get(key) ==
  /\ memoryStore' = storage_get_store(memoryStore, key, now)
  /\ UNCHANGED <<written, deployed, now, jsMemoryStore, nextId, issued, redeemed, minted,
                 handed, passed, registered, pc, call>>

StorageTick ==
  /\ \E t \in StorageInstants : t > now /\ now' = t
  /\ UNCHANGED <<written, deployed, memoryStore, jsMemoryStore, nextId, issued, redeemed,
                 minted, handed, passed, registered, pc, call>>

StorageNext ==
  \/ \E key \in StorageKeys, value \in StorageValues, ttl \in TtlValues :
       MemoryStorage_set(key, value, ttl)
  \/ \E key \in StorageKeys : MemoryStorage_delete(key)
  \/ \E key \in StorageKeys : MemoryStorage_get(key)
  \/ StorageTick

StorageSpec == ConcInit /\ [][StorageNext]_vars

\* ------------------------------------------- the redirect back to the client
\* Both handlers serving authorize requests, the callbacks that follow them
\* and token requests, within the lifetime of what they store.  The authorize
\* requests include one whose redirect_uri is not an absolute URL ("app/cb")
\* and one without a state parameter.
RedirectAuthorizeRequests ==
  AuthorizeRequests
    \cup { [method |-> "GET", query |-> Query(<<"c1">>, <<"app", "cb">>, <<"xyz">>)],
           [method |-> "GET", query |-> Query(<<"c1">>, <<"https://app.example/cb">>, Undefined)] }

RedirectNext ==
  \/ \E req \in RedirectAuthorizeRequests : handleAuthorize(req)
  \/ \E st \in DOMAIN handed, up \in UpstreamOutcomes, u \in UserIds :
       handleCallback([code |-> <<"gc1">>, state |-> st], up, u)
  \/ \E req \in TokenRequests, skew \in 0..MaxSkew : handleToken(req, skew)
  \/ \E req \in RedirectAuthorizeRequests : js_authorize(req)
  \/ \E st \in DOMAIN handed, up \in UpstreamOutcomes, u \in UserIds :
       js_callback([code |-> <<"gc1">>, state |-> st], up, u)
  \/ \E req \in TokenRequests : js_token(req)

RedirectSpec == Init /\ [][RedirectNext]_vars

\* ---------------------------------------------------------------- claims
\* A claim about what a route answers is stated over the route's outcome for
\* every request of its request set, in every reachable state.

\* C1: two overlapping exchangeCode calls for the same code never both return
\* a token result, and no issued code has more than one access token minted
\* for it.
C1_OverlappingExchangeOneWinner ==
  /\ \A p \in Calls : \A q \in Calls :
       (p # q /\ pc[p] = "done" /\ pc[q] = "done" /\ call[p].code = call[q].code)
         => (call[p].result = Null \/ call[q].result = Null)
  /\ \A c \in DOMAIN issued :
       Cardinality({tok \in DOMAIN minted : minted[tok].code = c}) <= 1

\* C2: in part_001 no code is redeemed by more than one of a sequence of
\* exchangeCode calls, and once a call has succeeded for a code every later
\* call with that code returns null, whichever clientId it presents.
C2_CodeRedeemedAtMostOnce ==
  deployed = "ts" =>
    /\ \A c \in DOMAIN redeemed : redeemed[c] <= 1
    /\ \A c \in DOMAIN redeemed : \A cl \in ClientIds : \A skew \in 0..MaxSkew :
         exchangeCode(memoryStore, c, cl, generateCode("token", nextId.token + 1),
                      now, now + skew).ret = Null

\* a code has been redeemed and is presented again, by the client it was
\* issued for, before its TTL has elapsed
C2_Witness ==
  /\ deployed = "ts"
  /\ \E c \in DOMAIN redeemed :
       /\ redeemed[c] = 1
       /\ now > issued[c].at
       /\ now <= issued[c].at + (CodeTTL * MsPerSecond)

\* C3: in part_000 the token route answers 200 at most once for a code, and
\* after it has answered 200 every token request with that code is answered
\* 400 invalid_grant.
C3_JsCodeAcceptedOnce ==
  deployed = "js" =>
    /\ \A c \in DOMAIN redeemed : redeemed[c] <= 1
    /\ \A c \in DOMAIN redeemed : \A cl \in ClientIds :
         js_token_outcome(TokenBody(<<"authorization_code">>, c, cl)).res
           = Response(400, [error |-> "invalid_grant"])

\* the token records of a Map
TokenRecords(store) ==
  {k \in DOMAIN store : startsWith(k, <<"oauth", "token">>) \/ startsWith(k, <<"oauth", "user">>)}

\* C4: exchangeCode called with a clientId other than the one the code was
\* issued for returns null and writes no token record, before and after the
\* code's TTL.
C4_WrongClientGetsNothing ==
  deployed = "ts" =>
    \A c \in DOMAIN issued : \A cl \in ClientIds : \A skew \in 0..MaxSkew :
      cl # issued[c].clientId =>
        LET r == exchangeCode(memoryStore, c, cl, generateCode("token", nextId.token + 1),
                              now, now + skew)
        IN  /\ r.ret = Null
            /\ TokenRecords(r.store) \subseteq TokenRecords(memoryStore)
            /\ \A k \in TokenRecords(r.store) : r.store[k] = memoryStore[k]

\* a live code is in the Map, so that a call with another clientId finds it
C4_Witness ==
  /\ deployed = "ts"
  /\ \E c \in DOMAIN issued :
       /\ storage_get(memoryStore, StateKey(c), now) # Null
       /\ \E cl \in ClientIds : cl # issued[c].clientId

\* the outcomes of a callback request, whatever the upstream provider does
CallbackOutcomes(req) ==
  IF deployed = "ts"
  THEN {handleCallback_outcome(req, up, u) : up \in UpstreamOutcomes, u \in UserIds}
  ELSE {js_callback_outcome(req, up, u) : up \in UpstreamOutcomes, u \in UserIds}

\* C5: for each state value handed to the upstream provider at most one
\* callback goes past the state check, and once one has, a callback with the
\* same state is answered 400 without an upstream call.
C5_StateConsumedByCallback ==
  /\ \A s \in DOMAIN passed : passed[s] <= 1
  /\ \A s \in DOMAIN passed :
       \A out \in CallbackOutcomes([code |-> <<"gc1">>, state |-> s]) :
         out.res.status = 400 /\ ~out.upstream

\* the Map the deployed handler uses
DeployedStore == IF deployed = "ts" THEN memoryStore ELSE jsMemoryStore

\* C6: a callback whose state was not handed out by an earlier authorize
\* request, or was handed out longer ago than the correlation TTL, is answered
\* 400, calls the upstream provider not at all and stores no code and no grant.
C6_CallbackNeedsLiveHandedState ==
  \A req \in CallbackRequests \cup JsCallbackRequests :
    (req.state \notin DOMAIN handed
       \/ now > handed[req.state] + (StateTTL * MsPerSecond))
      => \A out \in CallbackOutcomes(req) :
           /\ out.res.status = 400
           /\ ~out.upstream
           /\ DOMAIN out.store \subseteq DOMAIN DeployedStore

\* C7: in part_001 a token returned by exchangeCode at time t is accepted by
\* validateToken, with the props of the redeemed code, at every time up to and
\* including t + 3600 s and refused at every later time; the token response
\* says expires_in 3600 and the stored expiresAt is t + 3600000.
C7_TokenValidForOneHour ==
  deployed = "ts" =>
    /\ \A tok \in DOMAIN minted :
         LET valid   == validateToken(memoryStore, tok, now).ret
             expires == minted[tok].at + (TokenExpiresIn * MsPerSecond)
         IN  /\ now <= expires => valid = minted[tok].props
             /\ now > expires => valid = Null
             /\ TokenKey(tok) \in DOMAIN memoryStore
                  => JSON_parse(memoryStore[TokenKey(tok)].value).expiresAt = expires
    /\ \A req \in TokenRequests : \A skew \in 0..MaxSkew :
         LET out == handleToken_outcome(req, skew)
         IN  out.res.status = 200 => out.res.body.expires_in = 3600

\* the routes behind the bearer token
ProtectedRoutes == IF deployed = "ts" THEN {"mcp", "sse"} ELSE {"mcp"}

\* the outcome of a request to a protected route
ProtectedOutcome(route, req, dispatch) ==
  IF deployed = "js" THEN js_mcp_outcome(req, dispatch)
  ELSE IF route = "mcp" THEN handleMCPEndpoint_outcome(req, dispatch)
  ELSE handleSSEEndpoint_outcome(req, dispatch)

\* the request carries a bearer token that was issued and has not expired
PresentsLiveToken(req) ==
  /\ Truthy(req.authorization)
  /\ startsWith(req.authorization, <<"Bearer">>)
  /\ Tail(req.authorization) \in DOMAIN minted
  /\ now <= minted[Tail(req.authorization)].at + (TokenExpiresIn * MsPerSecond)

\* the route refuses the method before it looks at the token
RefusesMethod(route, req) == route = "mcp" /\ req.method # "POST"

ExpiredTokens ==
  {tok \in DOMAIN minted : now > minted[tok].at + (TokenExpiresIn * MsPerSecond)}

Presenting(method, tok) == [method |-> method, authorization |-> <<"Bearer">> \o tok]

\* C9 as stated: a protected request with an expired token and the same
\* request with a token that was never issued get the same response, of
\* status 401.
C9_ExpiredLikeUnknown ==
  \A route \in ProtectedRoutes : \A m \in {"POST", "GET"} : \A d \in DispatchOutcomes :
    \A tok \in ExpiredTokens :
      LET expired == ProtectedOutcome(route, Presenting(m, tok), d).res
          unknown == ProtectedOutcome(route, Presenting(m, <<"notoken">>), d).res
      IN  expired = unknown /\ expired.status = 401

\* C9 amended: a protected request with an expired token and the same request
\* with a token that was never issued get the same response: status 401, or
\* 405 when it is a non-POST request to an mcp route.
C9_ExpiredLikeUnknown_Amended ==
  \A route \in ProtectedRoutes : \A m \in {"POST", "GET"} : \A d \in DispatchOutcomes :
    \A tok \in ExpiredTokens :
      LET expired == ProtectedOutcome(route, Presenting(m, tok), d).res
          unknown == ProtectedOutcome(route, Presenting(m, <<"notoken">>), d).res
      IN  /\ expired = unknown
          /\ expired.status = IF RefusesMethod(route, Presenting(m, tok)) THEN 405 ELSE 401

\* a token has expired while its record is still in the Map of part_000
C9_Witness ==
  /\ deployed = "js"
  /\ \E tok \in ExpiredTokens : (<<"token">> \o tok) \in DOMAIN jsMemoryStore

\* the string members of a JSON body; the other members are literals of the
\* code, numbers and lists
BodyStrings(body) ==
  {body[f] : f \in (DOMAIN body) \cap {"access_token", "scope", "client_id",
                                        "client_secret", "client_name"}}
    \cup (IF "redirect_uris" \in DOMAIN body THEN {body.redirect_uris.items} ELSE {})

\* the strings in the URL of a redirect to the client
RedirectStrings(location) ==
  {location[f] : f \in (DOMAIN location) \cap {"url", "code", "state"}}

\* the strings in the URL of part_001's redirect to the upstream provider,
\* whose state parameter is base64 of the JSON of the authorization request
UpstreamRedirectStrings(location) ==
  LET authRequest == JSON_parse(Base64Decode(location.state))
  IN  {location.url, authRequest.clientId, authRequest.redirectUri,
       Member(authRequest, "state")}

\* the strings a response carries
ResponseStrings(route, res) ==
  IF res.location = Null THEN BodyStrings(res.body)
  ELSE IF route = "authorize" /\ deployed = "ts" THEN UpstreamRedirectStrings(res.location)
  ELSE RedirectStrings(res.location)

\* the responses of the authorize, callback, token, register and remove
\* routes of the deployed handler to every request of their request sets
RouteResponses ==
  IF deployed = "ts"
  THEN {[route |-> "authorize", res |-> handleAuthorize_outcome(req).res] :
          req \in AuthorizeRequests}
       \cup {[route |-> "callback", res |-> handleCallback_outcome(req, up, u).res] :
               req \in CallbackRequests, up \in UpstreamOutcomes, u \in UserIds}
       \cup {[route |-> "token", res |-> handleToken_outcome(req, skew).res] :
               req \in TokenRequests, skew \in 0..MaxSkew}
       \cup {[route |-> "register", res |-> handleRegister_outcome(req).res] :
               req \in RegisterRequests}
       \cup {[route |-> "remove", res |-> handleRemove_outcome(req, r).res] :
               req \in RemoveRequests, r \in RevokeOutcomes}
  ELSE {[route |-> "authorize", res |-> js_authorize_outcome(req).res] :
          req \in AuthorizeRequests}
       \cup {[route |-> "callback", res |-> js_callback_outcome(req, up, u).res] :
               req \in JsCallbackRequests, up \in UpstreamOutcomes, u \in UserIds}
       \cup {[route |-> "token", res |-> js_token_outcome(req).res] :
               req \in TokenRequests}
       \cup {[route |-> "register", res |-> js_register_outcome(req).res] :
               req \in RegisterRequests}

\* C10: no response of the authorize, callback, token, register and remove
\* routes carries the upstream provider's access token, in its body or in its
\* redirect URL, and the 200 response of the token route has no member other
\* than access_token, token_type, expires_in and scope.
C10_UpstreamTokenNotDisclosed ==
  \A r \in RouteResponses :
    /\ \A u \in UserIds : UpstreamToken(u) \notin ResponseStrings(r.route, r.res)
    /\ (r.route = "token" /\ r.res.status = 200) =>
         DOMAIN r.res.body \subseteq {"access_token", "token_type", "expires_in", "scope"}

\* the token route answers 200 for a code that the callback route issued
\* after it obtained the upstream provider's token
C10_Witness ==
  \E r \in RouteResponses : r.route = "token" /\ r.res.status = 200

\* C11: when handleRemove answers 200 for (userId, clientId, accessToken), the
\* Map it leaves lists none of the grants that were listed for userId when the
\* request started, and lookupClient(clientId) returns null on it.
C11_RemoveClearsGrantsAndClient ==
  \A req \in RemoveRequests : \A r \in RevokeOutcomes :
    LET out == handleRemove_outcome(req, r)
    IN  out.res.status = 200 =>
          /\ listUserGrants(out.store, req.userId, now)
                \cap listUserGrants(memoryStore, req.userId, now) = {}
          /\ \A g \in listUserGrants(memoryStore, req.userId, now) :
                GrantKey(g.id) \notin DOMAIN out.store
          /\ lookupClient(out.store, req.clientId, now) = Null

\* a remove request is answered 200 while a grant is listed for its userId and
\* its clientId resolves to a registered client
C11_Witness ==
  \E req \in RemoveRequests :
    /\ handleRemove_outcome(req, "ok").res.status = 200
    /\ listUserGrants(memoryStore, req.userId, now) # {}
    /\ lookupClient(memoryStore, req.clientId, now) # Null

\* the access tokens that have a record in the Map of part_000
JsStoredTokens ==
  {Tail(k) : k \in {x \in DOMAIN jsMemoryStore : startsWith(x, <<"token">>)}}

\* the token records in the Map of storage.ts
StoredTokenRecords ==
  {JSON_parse(memoryStore[k].value) :
     k \in {x \in DOMAIN memoryStore : startsWith(x, <<"oauth", "token">>)}}

\* C12: every token record in the Map was written by a token request that
\* redeemed a code, and no token record exists for a code that has not been
\* exchanged: in part_001 the code of the record's client has been taken out
\* of the Map, in part_000 the token's code has been answered 200.
C12_TokenRecordOnlyByExchange ==
  /\ deployed = "ts" =>
       \A rec \in StoredTokenRecords :
         \E c \in DOMAIN issued :
           /\ issued[c].clientId = rec.clientId
           /\ StateKey(c) \notin DOMAIN memoryStore
  /\ deployed = "js" =>
       \A tok \in JsStoredTokens :
         /\ tok \in DOMAIN minted
         /\ minted[tok].code \in DOMAIN redeemed

\* the (subject, client)-keyed record of a stored token
UserRecordOf(store, token) ==
  storage_get(store, UserTokenKey(token.userId, token.clientId), now)

\* C13: after a token request answered 200 both the token-keyed and the
\* (subject, client)-keyed record of the new token are in the Map, and every
\* access token that validateToken accepts is the token held in the
\* (subject, client)-keyed record of its userId and clientId.
C13_AcceptedTokenIsIndexed ==
  /\ \A req \in TokenRequests : \A skew \in 0..MaxSkew :
       LET out == handleToken_outcome(req, skew)
           tok == out.res.body.access_token
           rec == getOAuthToken(out.store, tok, now + skew).ret
       IN  out.res.status = 200 =>
             /\ rec # Null
             /\ UserRecordOf(out.store, rec) # Null
             /\ JSON_parse(UserRecordOf(out.store, rec)).accessToken = tok
  /\ \A tok \in PresentableTokens :
       LET rec == getOAuthToken(memoryStore, tok, now).ret
       IN  validateToken(memoryStore, tok, now).ret # Null =>
             /\ UserRecordOf(memoryStore, rec) # Null
             /\ JSON_parse(UserRecordOf(memoryStore, rec)).accessToken = tok

\* the parameters registerClient is called with
RegisterParams ==
  { [redirectUris |-> r, name |-> n] :
      r \in {<<"https://app.example/cb">>, <<"https://app.example/cb", "https://app.example/cb2">>},
      n \in {<<"app">>, <<"MCP Client">>} }

\* C14: the clientId a registerClient call returns differs from every clientId
\* returned before, lookupClient of it right after the call returns a client
\* with the redirectUris passed to the call, and the call leaves the record of
\* every client registered before as it was.
C14_RegisteredClientsStayDistinct ==
  \A params \in RegisterParams :
    LET clientId == generateClientId(nextId.client + 1)
        after    == registerClient_store(memoryStore, params, clientId,
                                         generateCode("secret", nextId.secret + 1), now)
    IN  /\ clientId \notin registered
        /\ lookupClient(after, clientId, now) # Null
        /\ lookupClient(after, clientId, now).redirectUris = params.redirectUris
        /\ \A c \in registered :
             lookupClient(after, c, now) = lookupClient(memoryStore, c, now)

\* two clients have been registered one after the other and both resolve
C14_Witness ==
  /\ Cardinality(registered) >= 2
  /\ \A c \in registered : lookupClient(memoryStore, c, now) # Null

\* the outcome of a callback request of the deployed handler
CallbackOutcome(req, up, userId) ==
  IF deployed = "ts" THEN handleCallback_outcome(req, up, userId)
  ELSE js_callback_outcome(req, up, userId)

\* C15: a callback whose code the upstream token endpoint answers with a
\* non-success response is answered 400 and leaves the Map as it was: no new
\* code, grant or token record.
C15_UpstreamRejectionAnswered400 ==
  \A req \in CallbackRequests \cup JsCallbackRequests : \A u \in UserIds :
    LET out == CallbackOutcome(req, "reject", u)
    IN  out.upstream =>
          /\ out.res.status = 400
          /\ out.store = DeployedStore

\* a callback with a state that was handed out reaches the upstream token
\* endpoint, which rejects the code
C15_Witness ==
  \E req \in CallbackRequests \cup JsCallbackRequests : \E u \in UserIds :
    /\ req.state \in DOMAIN handed
    /\ CallbackOutcome(req, "reject", u).upstream

\* the ways the upstream provider fails other than by rejecting the code
UpstreamFailures == {"token_throws", "userinfo_fails", "userinfo_throws"}

\* C16: fetchUpstreamAuthToken returns a failure pair and does not throw when
\* the token request fails at the network level, and a callback of part_001
\* during which the token request or the user-info request fails is answered
\* 400: not 500, and no exception leaves handleCallback.
C16_UpstreamFailuresAnswered400 ==
  /\ \A u \in UserIds : fetchUpstreamAuthToken("token_throws", u) # Throw
  /\ \A req \in CallbackRequests : \A u \in UserIds : \A up \in UpstreamFailures :
       LET out == handleCallback_outcome(req, up, u)
       IN  out.upstream => out.res.status = 400

\* the outcome of an authorize request of the deployed handler
AuthorizeOutcome(req) ==
  IF deployed = "ts" THEN handleAuthorize_outcome(req) ELSE js_authorize_outcome(req)

\* C17: an authorize request (GET or POST) without client_id or without
\* redirect_uri is answered 400 and not redirected; one with both is answered
\* 302 to the upstream authorize URL; in part_001 and in part_000.
C17_AuthorizeNeedsClientAndRedirect ==
  \A req \in {r \in AuthorizeRequests : r.method \in {"GET", "POST"}} :
    LET out == AuthorizeOutcome(req)
    IN  IF Truthy(req.query.client_id) /\ Truthy(req.query.redirect_uri)
        THEN /\ out.res.status = 302
             /\ out.res.location # Null
             /\ out.res.location.url = <<"https://accounts.google.com/o/oauth2/v2/auth">>
        ELSE /\ out.res.status = 400
             /\ out.res.location = Null

\* C18: handleToken answers a POST, in this order: 400 unsupported_grant_type
\* for a grant_type other than authorization_code; 400 invalid_request for a
\* missing code or client_id; 400 invalid_grant for a code exchangeCode does
\* not redeem; otherwise 200 with access_token, token_type, expires_in and
\* scope.  In the first two cases the Map is unchanged.
C18_TokenErrorsInOrder ==
  deployed = "ts" =>
    \A req \in {r \in TokenRequests : r.method = "POST"} : \A skew \in 0..MaxSkew :
      LET out    == handleToken_outcome(req, skew)
          result == exchangeCode(memoryStore, req.code, req.client_id,
                                 generateCode("token", nextId.token + 1), now, now + skew)
      IN  IF req.grant_type # <<"authorization_code">>
          THEN /\ out.res = Response(400, [error |-> "unsupported_grant_type"])
               /\ out.store = memoryStore
          ELSE IF ~Truthy(req.code) \/ ~Truthy(req.client_id)
          THEN /\ out.res = Response(400, [error |-> "invalid_request"])
               /\ out.store = memoryStore
          ELSE IF result.ret = Null
          THEN out.res = Response(400, [error |-> "invalid_grant"])
          ELSE /\ out.res.status = 200
               /\ DOMAIN out.res.body = {"access_token", "token_type", "expires_in", "scope"}

\* redirect_uris is a list with at least one item
NonEmptyList(redirect_uris) == redirect_uris.kind = "array" /\ Len(redirect_uris.items) > 0

\* what a register request that is let through is answered and stores: one
\* new client record, which lookupClient resolves, and a 201 that names it
RegisterStoresOneClient(req, out) ==
  /\ out.res.status = 201
  /\ DOMAIN out.res.body = {"client_id", "client_secret", "redirect_uris", "client_name"}
  /\ out.res.body.redirect_uris = req.redirect_uris
  /\ out.res.body.client_name = req.client_name
  /\ (DOMAIN out.store) \ (DOMAIN memoryStore) = {ClientKey(out.res.body.client_id)}
  /\ \A k \in DOMAIN memoryStore : k \in DOMAIN out.store /\ out.store[k] = memoryStore[k]
  /\ LET client == lookupClient(out.store, out.res.body.client_id, now)
     IN  /\ client # Null
         /\ client.clientId = out.res.body.client_id
         /\ client.clientSecret = out.res.body.client_secret
         /\ client.redirectUris = req.redirect_uris.items

\* what a register request that is refused is answered and stores
RegisterRefused(out) ==
  /\ out.res = Response(400, [error |-> "invalid_redirect_uri"])
  /\ out.store = memoryStore

\* C19 as stated: handleRegister answers 400 invalid_redirect_uri and stores
\* nothing when redirect_uris is missing, not a list or empty; otherwise it
\* stores one new client and answers 201 with client_id, client_secret,
\* redirect_uris and client_name, and lookupClient resolves the client_id.
C19_RegisterValidatesRedirectUris ==
  \A req \in RegisterRequests :
    LET out == handleRegister_outcome(req)
    IN  IF NonEmptyList(req.redirect_uris)
        THEN RegisterStoresOneClient(req, out)
        ELSE RegisterRefused(out)

\* C19 amended: the statement holds of POST requests; a request with another
\* method is answered 405 and stores nothing, whatever its redirect_uris.
C19_RegisterValidatesRedirectUris_Amended ==
  \A req \in RegisterRequests :
    LET out == handleRegister_outcome(req)
    IN  IF req.method # "POST"
        THEN out.res.status = 405 /\ out.store = memoryStore
        ELSE IF NonEmptyList(req.redirect_uris)
        THEN RegisterStoresOneClient(req, out)
        ELSE RegisterRefused(out)

\* a register request has been answered 201 and its client resolves, while
\* another register request with an empty list is refused
C19_Witness ==
  /\ \E c \in registered : lookupClient(memoryStore, c, now) # Null
  /\ \E req \in RegisterRequests :
       req.method = "POST" /\ handleRegister_outcome(req).res.status = 400

\* the authorization request an authorize request left behind for a state
\* value: part_001 carries it in the state itself, part_000 stores it
OriginalRequest(st) ==
  IF deployed = "ts" THEN JSON_parse(Base64Decode(st))
  ELSE JSON_parse(storageGet(jsMemoryStore, <<"auth">> \o st, now))

\* the client can redeem the code in the Map
Redeemable(store, code, clientId) ==
  IF deployed = "ts"
  THEN exchangeCode(store, code, clientId, generateCode("token", nextId.token + 1),
                    now, now).ret \notin {Null, Throw}
  ELSE storageGet(store, <<"code">> \o code, now) # Null

\* C20: when the upstream exchange and the user-info fetch succeed, a
\* callback for an authorize request that gave a redirect_uri is answered 302
\* to that redirect_uri, with a parameter code holding a newly stored code
\* the same clientId can redeem and, when the authorize request had a
\* non-empty state, a parameter state equal to it.
C20_CallbackRedirectsToClient ==
  \A st \in DOMAIN handed : \A u \in UserIds :
    LET out == CallbackOutcome([code |-> <<"gc1">>, state |-> st], "ok", u)
    IN  (out.upstream /\ Truthy(OriginalRequest(st).redirectUri)) =>
          /\ out.res.status = 302
          /\ out.res.location.url = OriginalRequest(st).redirectUri
          /\ out.res.location.code \notin PresentableCodes
          /\ Redeemable(out.store, out.res.location.code, OriginalRequest(st).clientId)
          /\ Truthy(Member(OriginalRequest(st), "state")) =>
                out.res.location.state = OriginalRequest(st).state

\* the ids of the grants in the Map, and one that is not
GrantIds ==
  {Tail(Tail(k)) : k \in {x \in DOMAIN memoryStore : startsWith(x, <<"oauth", "grant">>)}}
    \cup {<<"nogrant">>}

\* the subjects: the one the upstream provider reports, and another
Subjects == UserIds \cup {<<"u2">>}

\* the two Maps hold the same entry, or none, under every key but those of keys
SameExcept(before, after, keys) ==
  /\ (DOMAIN after) \cap keys = {}
  /\ (DOMAIN before) \ keys = DOMAIN after
  /\ \A k \in DOMAIN after : after[k] = before[k]

\* validateToken gives the same result for every token on the two Maps
SameValidation(before, after) ==
  \A tok \in PresentableTokens :
    validateToken(after, tok, now).ret = validateToken(before, tok, now).ret

\* C21: revokeGrant(grantId, userId) deletes the grant record and its per-user
\* entry and nothing else, and validateToken returns for every access token
\* what it returned before.
C21_RevokeGrantLeavesTokens ==
  \A gid \in GrantIds : \A u \in Subjects :
    LET after == revokeGrant(memoryStore, gid, u)
    IN  /\ SameExcept(memoryStore, after, {GrantKey(gid), UserGrantKey(u, gid)})
        /\ SameValidation(memoryStore, after)

\* a grant is in the Map while validateToken accepts a token
C21_Witness ==
  /\ \E gid \in GrantIds : GrantKey(gid) \in DOMAIN memoryStore
  /\ \E tok \in DOMAIN minted : validateToken(memoryStore, tok, now).ret # Null

\* C22: deleteOAuthClient(clientId) removes the client record of clientId and
\* nothing else: token records, grant records, per-user entries, pending
\* codes and other clients stay, tokens still validate and grants are still
\* listed.
C22_DeleteClientLeavesTheRest ==
  \A c \in registered \cup ClientIds :
    LET after == deleteOAuthClient(memoryStore, c)
    IN  /\ SameExcept(memoryStore, after, {ClientKey(c)})
        /\ SameValidation(memoryStore, after)
        /\ \A u \in Subjects :
             listUserGrants(after, u, now) = listUserGrants(memoryStore, u, now)

\* a registered client holds a token that validates and a grant that is listed
C22_Witness ==
  \E c \in registered :
    /\ lookupClient(memoryStore, c, now) # Null
    /\ \E tok \in DOMAIN minted :
         /\ minted[tok].props.clientId = c
         /\ validateToken(memoryStore, tok, now).ret # Null
    /\ \E u \in UserIds : \E g \in listUserGrants(memoryStore, u, now) : g.clientId = c

\* the grants listed for a subject that name a client
GrantsOf(u, c) == {g \in listUserGrants(memoryStore, u, now) : g.clientId = c}

\* C23: after any number of completed authorizations of a client by a
\* subject, none of them revoked, listUserGrants of the subject contains
\* exactly one grant for the client.
C23_OneGrantPerSubjectAndClient ==
  \A u \in UserIds : \A c \in ClientIds :
    (\E code \in DOMAIN issued : issued[code].clientId = c) =>
      Cardinality(GrantsOf(u, c)) = 1

\* the most recent set of the key was not followed by a delete of it
WrittenKey(key) == key \in DOMAIN written

\* the current time is past set-time + ttl * 1000 ms of the most recent set
PastTtl(key) ==
  /\ written[key].ttl.given
  /\ now > written[key].at + (written[key].ttl.seconds * MsPerSecond)

\* C24: get(key) returns the value of the most recent set(key, ...) when no
\* delete(key) followed it and it had no ttl or the time is not past set-time
\* + ttl * 1000 ms, and null otherwise; a get that returns null for an entry
\* in the Map removes the entry, so that list does not report the key.
C24_GetReturnsLiveValue ==
  \A key \in StorageKeys :
    LET ret   == storage_get(memoryStore, key, now)
        after == storage_get_store(memoryStore, key, now)
    IN  /\ ret = IF WrittenKey(key) /\ ~PastTtl(key) THEN written[key].value ELSE Null
        /\ (ret = Null) =>
             \A prefix \in {EmptyString, <<"a">>} : key \notin storage_list(after, prefix)

\* the keys of a Map that no key of the other Map equals
NewKeys(before, after) == (DOMAIN after) \ (DOMAIN before)

\* the code was created more than CodeTTL seconds ago
PastCodeTTL(code) == now > issued[code].at + (CodeTTL * MsPerSecond)

\* C25: at every time later than its creation + 300 s, exchangeCode of a code
\* with the clientId it was issued for returns null, the token route answers
\* 400, and no token record is written.
C25_CodeExpiresAfter300s ==
  \A code \in DOMAIN issued :
    PastCodeTTL(code) =>
      LET req == TokenBody(<<"authorization_code">>, code, issued[code].clientId)
      IN  IF deployed = "ts"
          THEN \A skew \in 0..MaxSkew :
                 LET result == exchangeCode(memoryStore, code, issued[code].clientId,
                                            generateCode("token", nextId.token + 1),
                                            now, now + skew)
                     out    == handleToken_outcome(req, skew)
                 IN  /\ result.ret = Null
                     /\ NewKeys(memoryStore, result.store) = {}
                     /\ out.res.status = 400
                     /\ NewKeys(memoryStore, out.store) = {}
          ELSE LET out == js_token_outcome(req)
               IN  /\ out.res.status = 400
                   /\ NewKeys(jsMemoryStore, out.store) = {}

\* a code that was never redeemed is still in the Map after its 300 s
C25_Witness ==
  \E code \in DOMAIN issued :
    /\ PastCodeTTL(code)
    /\ code \notin DOMAIN redeemed
    /\ \/ StateKey(code) \in DOMAIN memoryStore
       \/ (<<"code">> \o code) \in DOMAIN jsMemoryStore

\* the grants recorded by storeOAuthGrant and not revoked since: revokeGrant
\* deletes the record under oauth:grant: that storeOAuthGrant wrote
RecordedGrants ==
  {JSON_parse(memoryStore[GrantKey(gid)].value) : gid \in GrantIds \ {<<"nogrant">>}}

\* C26: listUserGrants(userId) returns exactly the grants recorded for userId
\* and not revoked, whatever time has passed: no grant of another subject and
\* no record that is not a grant, for every client_id the flow accepts.
C26_ListUserGrantsListsGrants ==
  \A u \in Subjects :
    listUserGrants(memoryStore, u, now) = {g \in RecordedGrants : g.userId = u}

\* the key is not in the Map, or its item has expired
MissingOrExpired(key) ==
  key \notin DOMAIN memoryStore \/ ItemExpired(memoryStore[key], now)

\* the call returned null: it did not throw, and it set no entry of the Map
ReportsAbsence(ret, after) ==
  /\ ret = Null
  /\ ret # Throw
  /\ \A k \in DOMAIN after : k \in DOMAIN memoryStore /\ after[k] = memoryStore[k]

\* C27: getOAuthClient, getOAuthToken, getOAuthGrant, getOAuthState,
\* validateToken and exchangeCode return null for a key that is missing or
\* expired; they do not throw and set nothing in the store.
C27_MissingKeyIsAbsence ==
  /\ \A c \in registered \cup ClientIds :
       MissingOrExpired(ClientKey(c)) =>
         ReportsAbsence(getOAuthClient(memoryStore, c, now),
                        storage_get_store(memoryStore, ClientKey(c), now))
  /\ \A tok \in PresentableTokens :
       MissingOrExpired(TokenKey(tok)) =>
         /\ LET got == getOAuthToken(memoryStore, tok, now)
            IN  ReportsAbsence(got.ret, got.store)
         /\ LET got == validateToken(memoryStore, tok, now)
            IN  ReportsAbsence(got.ret, got.store)
  /\ \A gid \in GrantIds :
       MissingOrExpired(GrantKey(gid)) =>
         LET got == getOAuthGrant(memoryStore, gid, now)
         IN  ReportsAbsence(got.ret, got.store)
  /\ \A code \in PresentableCodes :
       MissingOrExpired(StateKey(code)) =>
         /\ LET got == getOAuthState(memoryStore, code, now)
            IN  ReportsAbsence(got.ret, got.store)
         /\ \A c \in ClientIds : \A skew \in 0..MaxSkew :
              LET got == exchangeCode(memoryStore, code, c,
                                      generateCode("token", nextId.token + 1),
                                      now, now + skew)
              IN  ReportsAbsence(got.ret, got.store)

\* the Map still holds the record of a token after its ttl has run out
C27_Witness ==
  \E tok \in DOMAIN minted :
    /\ TokenKey(tok) \in DOMAIN memoryStore
    /\ ItemExpired(memoryStore[TokenKey(tok)], now)

\* the members of an AuthRequest
AuthRequestFields ==
  {"clientId", "redirectUri", "scope", "state", "responseType", "codeChallenge",
   "codeChallengeMethod"}

\* the request handleCallback decodes from a state parameter
DecodedRequest(state) ==
  handleCallback_params([code |-> <<"gc1">>, state |-> state], <<"u1">>).request

RemoveIncomplete(req) ==
  ~Truthy(req.userId) \/ ~Truthy(req.clientId) \/ ~Truthy(req.accessToken)

\* C29: a remove request without userId, clientId or accessToken is answered
\* 400, deletes no grant and no client and makes no upstream revocation call;
\* a request with all three is answered 200 {status: OK}.
C29_RemoveAnswers ==
  \A req \in RemoveRequests : \A revoke \in RevokeOutcomes :
    LET out == handleRemove_outcome(req, revoke)
    IN  IF RemoveIncomplete(req)
        THEN /\ out.res.status = 400
             /\ out.store = memoryStore
             /\ ~out.upstream
        ELSE /\ out.res.status = 200
             /\ out.res.body = [status |-> "OK"]

\* the routes known to each dispatcher
KnownRoutes ==
  [part_001 |-> {"", "/", "privacy", "terms", "authorize", "callback", "token",
                 "register", "sse", "mcp", "remove"},
   part_000 |-> {"", "/", "privacy", "terms", "authorize", "callback", "token",
                 "register", "mcp", "sse"},
   index_ts |-> {"", "/", "privacy", "terms", "authorize", "callback", "token",
                 "register", "mcp", "sse"},
   index_js |-> {"", "/", "authorize", "mcp"}]

\* the stored state of an implementation; the stubs keep none
StoredState(impl) ==
  CASE impl = "part_001" -> memoryStore
    [] impl = "part_000" -> jsMemoryStore
    [] OTHER             -> EmptyMap

\* what an implementation does with a request that reaches no route function
DispatcherOutcome(impl, req) ==
  CASE impl = "part_001" -> handler_unrouted_outcome(req)
    [] impl = "part_000" -> js_handler_unrouted_outcome(req)
    [] impl = "index_ts" -> Outcome(api_ts_handler_answer(req.method, req.path), EmptyMap)
    [] impl = "index_js" -> Outcome(api_js_handler_answer(req.method, req.path), EmptyMap)

\* the request reaches a route function of the implementation, which may
\* change the stored state
ReachesRouteFunction(impl, req) ==
  CASE impl = "part_001" ->
         handler_route(req.method, req.path) \notin PageRoutes \cup {"preflight", "default"}
    [] impl = "part_000" ->
         js_handler_route(req.method, req.path) \notin PageRoutes \cup {"preflight", "default", "sse"}
    [] OTHER -> FALSE

LiveCode(code) ==
  StateKey(code) \in DOMAIN memoryStore /\ ~ItemExpired(memoryStore[StateKey(code)], now)

\* C31: a redemption attempt with a clientId other than the issuing one
\* returns null and consumes the code: a later exchangeCode with the issuing
\* clientId, at any time within the TTL, returns null as well.
C31_WrongClientConsumesCode ==
  \A code \in DOMAIN issued : \A wrong \in ClientIds \ {issued[code].clientId} :
    LiveCode(code) =>
      LET first == exchangeCode(memoryStore, code, wrong,
                                generateCode("token", nextId.token + 1), now, now)
      IN  /\ first.ret = Null
          /\ StateKey(code) \notin DOMAIN first.store
          /\ \A t \in {now, memoryStore[StateKey(code)].expiry} :
               exchangeCode(first.store, code, issued[code].clientId,
                            generateCode("token", nextId.token + 1), t, t).ret = Null

\* a token request with the wrong clientId has taken an unexpired code out of
\* the Map and no token was minted
C31_Witness ==
  /\ deployed = "ts"
  /\ DOMAIN minted = {}
  /\ \E code \in DOMAIN issued :
       /\ ~PastCodeTTL(code)
       /\ StateKey(code) \notin DOMAIN memoryStore
       /\ storage_list(memoryStore, <<"oauth", "token">>) = {}

\* the key of a token record: oauth:token:... or oauth:user:...
TokenRecordKey(k) ==
  startsWith(k, <<"oauth", "token">>) \/ startsWith(k, <<"oauth", "user">>)

\* no token record of the Map afterwards is new or changed
NoTokenRecordWritten(before, after) ==
  \A k \in DOMAIN after :
    TokenRecordKey(k) => k \in DOMAIN before /\ after[k] = before[k]

\* C32: for every code entry the callback route can put in the store, an
\* exchangeCode call that returns null or throws has written no oauth:token:
\* and no oauth:user: record.
C32_ExchangeAllOrNothing ==
  \A code \in PresentableCodes : \A c \in ClientIds : \A skew \in 0..MaxSkew :
    LET result == exchangeCode(memoryStore, code, c,
                               generateCode("token", nextId.token + 1), now, now + skew)
    IN  (result.ret = Null \/ result.ret = Throw) =>
          NoTokenRecordWritten(memoryStore, result.store)

\* the responses a handler can send
SentStatuses == {200, 201, 302, 400, 401, 404, 405, 500}

\* C33: every request to the part_001 handler ends with one response: when a
\* route function rejects, the catch block of the handler answers 500
\* {error: 'Internal server error'} and the promise of the handler does not
\* reject.
C33_HandlerAlwaysAnswers ==
  deployed = "ts" =>
    \A r \in RouteResponses :
      /\ r.res # Unhandled
      /\ r.res.status \in SentStatuses

\* the key of a client record, in the layout of storage.ts or of part_000
IsClientKey(k) == startsWith(k, <<"oauth", "client">>) \/ startsWith(k, <<"client">>)

\* the Map without its client records
WithoutClients(store) == [k \in {x \in DOMAIN store : ~IsClientKey(x)} |-> store[k]]

\* a client record of the deployed handler for clientId with one redirect URI
ClientRecord(clientId, uri) ==
  IF deployed = "ts"
  THEN [key   |-> ClientKey(clientId),
        value |-> JSON_stringify([clientId |-> clientId, clientSecret |-> <<"s1">>,
                                  redirectUris |-> [kind |-> "array", items |-> uri],
                                  name |-> <<"app">>, createdAt |-> 0])]
  ELSE [key   |-> <<"client">> \o clientId,
        value |-> JSON_stringify([clientSecret |-> <<"s1">>,
                                  redirectUris |-> [kind |-> "array", items |-> uri],
                                  name |-> <<"app">>])]

\* the Maps that differ from the given one in their client records only: the
\* registry emptied, and the registry holding a client of the flow with a
\* redirect URI that is, or is not, the one the flow uses
RegistryVariants(store) ==
  {store, WithoutClients(store)}
    \cup { storage_set(WithoutClients(store), ClientRecord(c, uri).key,
                       ClientRecord(c, uri).value, 0, now) :
             c \in ClientIds, uri \in RedirectUris \cup {<<"https://other.example/cb">>} }

\* the client_secret values a token request carries
ClientSecrets == {Undefined, <<"s1">>, <<"wrong">>}

WithSecret(req, secret) ==
  [f \in (DOMAIN req) \cup {"client_secret"} |->
     IF f = "client_secret" THEN secret ELSE req[f]]

\* the two outcomes answer alike and leave Maps that differ in client records only
SameFlow(a, b) == a.res = b.res /\ WithoutClients(a.store) = WithoutClients(b.store)

\* C34: the client registry does not influence the authorization flow: on two
\* Maps that differ in their client records only, and with any client_secret
\* in the token request, authorize, callback and token answer alike and leave
\* Maps that again differ in client records only.
C34_RegistryDoesNotInfluenceFlow ==
  \A v \in RegistryVariants(DeployedStore) :
    /\ \A req \in AuthorizeRequests :
         IF deployed = "ts"
         THEN SameFlow(handleAuthorize_on(v, req), handleAuthorize_on(DeployedStore, req))
         ELSE SameFlow(js_authorize_on(v, req), js_authorize_on(DeployedStore, req))
    /\ \A up \in UpstreamOutcomes : \A u \in UserIds :
         /\ \A req \in CallbackRequests :
              SameFlow(handleCallback_on(v, req, up, u),
                       handleCallback_on(DeployedStore, req, up, u))
         /\ \A req \in JsCallbackRequests :
              SameFlow(js_callback_on(v, req, up, u),
                       js_callback_on(DeployedStore, req, up, u))
    /\ \A req \in TokenRequests : \A secret \in ClientSecrets :
         IF deployed = "ts"
         THEN \A skew \in 0..MaxSkew :
                SameFlow(handleToken_on(v, WithSecret(req, secret), skew),
                         handleToken_on(DeployedStore, req, skew))
         ELSE SameFlow(js_token_on(v, WithSecret(req, secret)),
                       js_token_on(DeployedStore, req))

\* a code was issued and an access token minted for a client_id that no
\* register request has returned and that has no client record
C34_Witness ==
  \E tok \in DOMAIN minted :
    /\ minted[tok].code \in DOMAIN issued
    /\ minted[tok].props.clientId \in ClientIds \ registered
    /\ ~\E k \in DOMAIN DeployedStore : IsClientKey(k)

\* the record under the key is in the Map and has not expired at time t
LiveRecord(store, key, t) == key \in DOMAIN store /\ ~ItemExpired(store[key], t)

\* the instants from now on at which a token's validity can change: now, the
\* expiry of its record and its expiresAt
TokenInstants(tok) ==
  {now} \cup {t \in {JSON_parse(memoryStore[TokenKey(tok)].value).expiresAt,
                     memoryStore[TokenKey(tok)].expiry} : t > now}

\* C35: handleRemove removes no access-token record: after a remove request
\* with all three parameters, whatever the revoke endpoint does, validateToken
\* answers for every minted token as it did before, at every time, and returns
\* the token's props for as long as the record has not expired.
C35_RemoveKeepsTokens ==
  deployed = "ts" =>
    \A req \in RemoveRequests : \A r \in RevokeOutcomes :
      \A tok \in {x \in DOMAIN minted : TokenKey(x) \in DOMAIN memoryStore} :
        \A t \in TokenInstants(tok) :
          LET out    == handleRemove_outcome(req, r)
              before == validateToken(memoryStore, tok, t).ret
              after  == validateToken(out.store, tok, t).ret
          IN  /\ after = before
              /\ (LiveRecord(memoryStore, TokenKey(tok), t)
                    /\ t <= JSON_parse(memoryStore[TokenKey(tok)].value).expiresAt)
                   => after = minted[tok].props

\* a remove request for the subject and client of a minted token has
\* completed (the subject has no grant left) and the token is still accepted
C35_Witness ==
  /\ deployed = "ts"
  /\ \E tok \in DOMAIN minted :
       /\ minted[tok].props.userId \in UserIds
       /\ minted[tok].props.clientId = <<"c1">>
       /\ storage_list(memoryStore, UserGrantPrefix(minted[tok].props.userId)) = {}
       /\ validateToken(memoryStore, tok, now).ret = minted[tok].props

\* remove requests with three non-empty parameters that no check ties to one
\* another: any subject, any client id, and an accessToken that is the
\* upstream token of the subject, a token the broker minted, or neither
UncheckedRemoveRequests ==
  { [userId |-> u, clientId |-> c, accessToken |-> a] :
      u \in Subjects, c \in ClientIds \cup registered,
      a \in {UpstreamToken(<<"u1">>), <<"bogus">>} \cup DOMAIN minted }

\* the grants recorded for a subject and not revoked so far
RecordedGrantsOf(u) == {g \in RecordedGrants : g.userId = u}

\* C36: for any three non-empty parameters handleRemove performs its
\* deletions: whatever the accessToken, both records of every grant of userId
\* are gone afterwards, those for clients other than clientId included, and
\* so is the client record of clientId, whether or not userId has a grant for
\* it; the request is answered 200 when the revoke endpoint answers.
C36_RemoveIsUnchecked ==
  deployed = "ts" =>
    \A req \in UncheckedRemoveRequests : \A r \in RevokeOutcomes :
      LET out == handleRemove_outcome(req, r)
      IN  /\ r = "ok" => out.res = Response(200, [status |-> "OK"])
          /\ \A g \in RecordedGrantsOf(req.userId) :
               /\ GrantKey(g.id) \notin DOMAIN out.store
               /\ UserGrantKey(req.userId, g.id) \notin DOMAIN out.store
               /\ g \notin listUserGrants(out.store, req.userId, now)
          /\ ClientKey(req.clientId) \notin DOMAIN out.store

\* a remove request that names a registered client and carries an accessToken
\* that is no token of anyone is answered 200 while its subject has a grant
\* for another client and none for the client named
C36_Witness ==
  /\ deployed = "ts"
  /\ \E req \in UncheckedRemoveRequests :
       /\ req.accessToken = <<"bogus">>
       /\ lookupClient(memoryStore, req.clientId, now) # Null
       /\ GrantsOf(req.userId, req.clientId) = {}
       /\ listUserGrants(memoryStore, req.userId, now) # {}
       /\ handleRemove_outcome(req, "ok").res.status = 200

\* ------------------------- a remove request overlapping an authorization
\* handleRemove of part_001 step by step: every await hands control to the
\* other requests.  The Map operation of an awaited storage call runs when the
\* call is made, its continuation after the await.

\* the remove requests that pass the test of line 397
CompleteRemoveRequests ==
  { [userId |-> u, clientId |-> c, accessToken |-> UpstreamToken(u)] :
      u \in UserIds, c \in GrantIndexClientIds }

\* part_001 lines 392-402 and storage.ts line 119: the parameters are read and
\* listUserGrants takes the keys under the user's grant prefix
handleRemove_list(p, req) ==
  /\ deployed = "ts"
  /\ pc[p] = "idle"
  /\ pc' = [pc EXCEPT ![p] = "awaitList"]
  /\ call' = [call EXCEPT ![p] =
                [req    |-> req,
                 listed |-> storage_list(memoryStore, UserGrantPrefix(req.userId)),
                 keys   |-> storage_list(memoryStore, UserGrantPrefix(req.userId)),
                 grants |-> {}]]
  /\ UNCHANGED <<written, deployed, passed, registered, now, memoryStore, jsMemoryStore,
                 nextId, issued, redeemed, minted, handed>>

\* storage.ts lines 122-127: one turn of the loop of listUserGrants, the get
\* of one of the keys taken
handleRemove_get(p) ==
  /\ pc[p] = "awaitList"
  /\ \E k \in call[p].keys :
       LET data == storage_get(memoryStore, k, now)
       IN  /\ memoryStore' = storage_get_store(memoryStore, k, now)
           /\ call' = [call EXCEPT ![p].keys = @ \ {k},
                                   ![p].grants = IF data # Null
                                                 THEN @ \cup {JSON_parse(data)}
                                                 ELSE @]
  /\ UNCHANGED <<written, deployed, passed, registered, now, jsMemoryStore, nextId, issued,
                 redeemed, minted, handed, pc>>

\* storage.ts line 133: the first delete of revokeGrant
RECURSIVE revokeGrants_first(_, _)
revokeGrants_first(store, grants) ==
  IF grants = {} THEN store
  ELSE LET grant == CHOOSE g \in grants : TRUE
       IN  revokeGrants_first(storage_delete(store, GrantKey(GrantId(grant))),
                              grants \ {grant})

\* storage.ts line 134: the second delete of revokeGrant
RECURSIVE revokeGrants_second(_, _)
revokeGrants_second(store, grants) ==
  IF grants = {} THEN store
  ELSE LET grant == CHOOSE g \in grants : TRUE
       IN  revokeGrants_second(
             storage_delete(store, UserGrantKey(grant.userId, GrantId(grant))),
             grants \ {grant})

\* part_001 line 403: the listing is complete and Promise.all starts
\* revokeGrant for every grant listed; each runs up to its first await
handleRemove_revoke(p) ==
  /\ pc[p] = "awaitList"
  /\ call[p].keys = {}
  /\ memoryStore' = revokeGrants_first(memoryStore, call[p].grants)
  /\ pc' = [pc EXCEPT ![p] = "awaitRevoke"]
  /\ UNCHANGED <<written, deployed, passed, registered, now, jsMemoryStore, nextId, issued,
                 redeemed, minted, handed, call>>

\* storage.ts line 134 for every grant listed
handleRemove_revoked(p) ==
  /\ pc[p] = "awaitRevoke"
  /\ memoryStore' = revokeGrants_second(memoryStore, call[p].grants)
  /\ pc' = [pc EXCEPT ![p] = "awaitAll"]
  /\ UNCHANGED <<written, deployed, passed, registered, now, jsMemoryStore, nextId, issued,
                 redeemed, minted, handed, call>>

\* part_001 lines 406-409: deleteOAuthClient, then the revoke request is sent
handleRemove_deleteClient(p) ==
  /\ pc[p] = "awaitAll"
  /\ memoryStore' = deleteOAuthClient(memoryStore, call[p].req.clientId)
  /\ pc' = [pc EXCEPT ![p] = "awaitFetch"]
  /\ UNCHANGED <<written, deployed, passed, registered, now, jsMemoryStore, nextId, issued,
                 redeemed, minted, handed, call>>

\* part_001 lines 409-414: the revoke request ends, by an answer (200 is
\* sent) or by a rejection; the Map is not touched
handleRemove_respond(p) ==
  /\ pc[p] = "awaitFetch"
  /\ pc' = [pc EXCEPT ![p] = "idle"]
  /\ call' = [call EXCEPT ![p] = Null]
  /\ UNCHANGED <<written, deployed, passed, registered, now, memoryStore, jsMemoryStore,
                 nextId, issued, redeemed, minted, handed>>

\* one remove request at a time, next to the authorizations, callbacks and
\* token requests of the two clients
OverlapNext ==
  \/ \E req \in GrantIndexAuthorizeRequests : handleAuthorize(req)
  \/ \E st \in DOMAIN handed, u \in UserIds :
       handleCallback_upTo(MaxReauthCodes, [code |-> <<"gc1">>, state |-> st], "ok", u)
  \/ \E req \in GrantIndexTokenRequests : handleToken(req, 0)
  \/ \E req \in CompleteRemoveRequests : handleRemove_list(1, req)
  \/ handleRemove_get(1)
  \/ handleRemove_revoke(1)
  \/ handleRemove_revoked(1)
  \/ handleRemove_deleteClient(1)
  \/ handleRemove_respond(1)

OverlapSpec == ConcInit /\ [][OverlapNext]_vars

\* the grants recorded for the subject of the remove request in progress
\* whose per-user key was not among the keys the request listed
StoredAfterListing ==
  {g \in RecordedGrantsOf(call[1].req.userId) :
     UserGrantKey(g.userId, g.id) \notin call[1].listed}

\* the first half of C37: when handleRemove is about to respond, every grant
\* stored after its listing is returned by listUserGrants
LaterGrantsSurviveRemove ==
  pc[1] = "awaitFetch" =>
    StoredAfterListing \subseteq listUserGrants(memoryStore, call[1].req.userId, now)

\* C37: when handleRemove responds, the grants that completeAuthorization
\* stored for the same userId after the listing of handleRemove are returned
\* by listUserGrants(userId), and when none was stored after the listing,
\* listUserGrants(userId) is empty.
C37_RemoveRevokesListedGrantsOnly ==
  pc[1] = "awaitFetch" =>
    LET after == listUserGrants(memoryStore, call[1].req.userId, now)
    IN  /\ StoredAfterListing \subseteq after
        /\ StoredAfterListing = {} => after = {}

\* ------------------------------------------- tokens about to expire
\* storeOAuthToken and validateToken called directly, next to set and get of
\* MemoryStorage, with time passing between the calls.

\* the remaining lifetime, in ms, of the tokens handed to storeOAuthToken
RemainingLifetimes == {0 - 1, 0, 999, 1000}

\* the access tokens stored
StoredTokenValues == {<<"t1">>, <<"t2">>}

\* a token record of subject u1 and client c1 that expires at expiresAt
TokenRecord(accessToken, expiresAt) ==
  [accessToken |-> accessToken, userId |-> <<"u1">>, clientId |-> <<"c1">>,
   scope |-> <<"email">>, expiresAt |-> expiresAt,
   props |-> [userId |-> <<"u1">>, name |-> <<"Name">>, email |-> <<"user@example.com">>,
              accessToken |-> UpstreamToken(<<"u1">>), clientId |-> <<"c1">>]]

\* storage.ts storeOAuthToken
storeOAuthToken_call(accessToken, remaining) ==
  LET token == TokenRecord(accessToken, now + remaining)
      entry == [value |-> JSON_stringify(token), at |-> now,
                ttl |-> [given |-> TokenTtl(token, now) # 0,
                         seconds |-> TokenTtl(token, now)]]
  IN  /\ memoryStore' = storeOAuthToken(memoryStore, token, now)
      /\ written' = MapSet(MapSet(written, TokenKey(accessToken), entry),
                           UserTokenKey(token.userId, token.clientId), entry)
      /\ UNCHANGED <<deployed, now, jsMemoryStore, nextId, issued, redeemed, minted,
                     handed, passed, registered, pc, call>>

\* part_003 validateToken
validateToken_call(accessToken) ==
  /\ memoryStore' = validateToken(memoryStore, accessToken, now).store
  /\ UNCHANGED <<written, deployed, now, jsMemoryStore, nextId, issued, redeemed, minted,
                 handed, passed, registered, pc, call>>

TokenStoreNext ==
  \/ \E tok \in StoredTokenValues, remaining \in RemainingLifetimes :
       storeOAuthToken_call(tok, remaining)
  \/ \E tok \in StoredTokenValues : validateToken_call(tok)
  \/ \E ttl \in TtlValues : MemoryStorage_set(<<"a">>, JSON_stringify([n |-> 1]), ttl)
  \/ MemoryStorage_get(<<"a">>)
  \/ MemoryStorage_get(UserTokenKey(<<"u1">>, <<"c1">>))
  \/ StorageTick

TokenStoreSpec == ConcInit /\ [][TokenStoreNext]_vars

\* the key was last written by storeOAuthToken with a token whose remaining
\* lifetime was below one second
ShortLived(key) ==
  /\ key \in DOMAIN written
  /\ startsWith(key, <<"oauth">>)
  /\ Floor(JSON_parse(written[key].value).expiresAt - written[key].at, MsPerSecond) <= 0

\* the key was last written by set with ttl 0
SetWithZeroTtl(key) ==
  /\ key \in DOMAIN written
  /\ ~startsWith(key, <<"oauth">>)
  /\ written[key].ttl = [given |-> TRUE, seconds |-> 0]

\* C38: a record written by storeOAuthToken for a token with less than one
\* second to live, like a record written by set with ttl 0, has no expiry
\* and is listed by list() at every later time, whatever calls are made; and
\* validateToken returns null for the token at every time after its expiresAt.
C38_ShortLivedTokenNeverEvicted ==
  /\ \A key \in DOMAIN written :
       (ShortLived(key) \/ SetWithZeroTtl(key)) =>
         /\ key \in storage_list(memoryStore, <<Head(key)>>)
         /\ memoryStore[key].expiry = 0
         /\ storage_get(memoryStore, key, now) = written[key].value
  /\ \A tok \in StoredTokenValues :
       (ShortLived(TokenKey(tok))
          /\ now > JSON_parse(written[TokenKey(tok)].value).expiresAt)
         => validateToken(memoryStore, tok, now).ret = Null

\* more than a second after the expiresAt of a token stored with less than a
\* second to live, both of its records are in the Map, and so is a record set
\* with ttl 0
C38_Witness ==
  \E tok \in StoredTokenValues :
    /\ ShortLived(TokenKey(tok))
    /\ ShortLived(UserTokenKey(<<"u1">>, <<"c1">>))
    /\ now > JSON_parse(written[TokenKey(tok)].value).expiresAt + MsPerSecond
    /\ {TokenKey(tok), UserTokenKey(<<"u1">>, <<"c1">>)}
          \subseteq storage_list(memoryStore, <<"oauth">>)
    /\ validateToken(memoryStore, tok, now).ret = Null
    /\ SetWithZeroTtl(<<"a">>)
    /\ <<"a">> \in storage_list(memoryStore, <<"a">>)
====
